---------------------------- MODULE Spec2Model ----------------------------
(***************************************************************************)
(* Model of the Ecmascript bytecode executor (duk_js_executor.c): the      *)
(* non-local transfer handler duk__handle_longjmp() with its helpers, the  *)
(* control-transfer and catcher opcodes of duk_js_execute_bytecode(), and  *)
(* the coroutine switching done for Duktape.Thread.resume() / yield().     *)
(*                                                                         *)
(* Indices kept in the state (callstack_index, idx_bottom, idx_retval,     *)
(* idx_base, cat_idx, act_idx) are the zero-based C indices; a sequence    *)
(* element with C index k is element k + 1 of the TLA+ sequence.           *)
(* A NULL thread pointer (thr->resumer) is written 0.                      *)
(***************************************************************************)
EXTENDS Integers, Sequences, FiniteSets, TLC

\* ------------------------------------------------------------------ bounds
\* number of threads of the heap (thread 1 is the executor's entry thread)
NThreads == 3
\* deepest call stack explored in one thread
MaxCallstack == 3
\* deepest catch stack explored in one thread
MaxCatchstack == 3
\* registers of every compiled function of the explored programs (nregs)
NRegs == 4
\* jump targets of the explored programs: 0 .. MaxPc
MaxPc == 0
\* instructions dispatched in one explored run of the executor
MaxSteps == 5
\* label ids used by LABEL / BREAK / CONTINUE: 1 .. MaxLabel
MaxLabel == 2
\* distinct constants of the explored programs: 1 .. MaxConst
MaxConst == 1
\* arguments and return values of the compiled programs: 0 .. MaxArg
MaxArg == 100
\* DUK_HEAP_INTCTR_DEFAULT scaled down: instructions between two interrupts
DUK_HEAP_INTCTR_DEFAULT == 3
\* longest chain of bound functions in front of a call target
MaxBound == 2

Threads == 1..NThreads

\* ------------------------------------------------------------ tagged values
Undef == [t |-> "undefined", n |-> 0]
UndefUnused == [t |-> "unused", n |-> 0]
Num(k) == [t |-> "number", n |-> k]
Str(k) == [t |-> "string", n |-> k]
ThreadObj(k) == [t |-> "thread", n |-> k]
FuncObj == [t |-> "function", n |-> 0]
InternalError == [t |-> "error", n |-> 0]

\* the constants table of the explored functions
Consts == {Str(k) : k \in 1..MaxConst}

\* DUK_LJ_TYPE_xxx, the number stored for a longjmp type
LjTypeNum ==
  [UNKNOWN |-> 0, RETURN |-> 1, THROW |-> 2, BREAK |-> 3, CONTINUE |-> 4,
   YIELD |-> 5, RESUME |-> 6, NORMAL |-> 7]

LjTypeOfNum(k) == CHOOSE ty \in DOMAIN LjTypeNum : LjTypeNum[ty] = k

VARIABLES
  threads,   \* per thread: state, resumer, callstack, catchstack, valstack, valstack_bottom
  heap,      \* heap->curr_thread and heap->lj (type, value1, value2, iserror)
  entry,     \* entry_thread and entry_callstack_top of duk_js_execute_bytecode
  steps,     \* instructions dispatched so far
  exec       \* where the executor is: "run", "longjmp", "finished", "rethrown", "error", "crash"

vars == <<threads, heap, entry, steps, exec>>

\* the wiped longjmp state
LjUnknown == [type |-> "UNKNOWN", value1 |-> UndefUnused, value2 |-> UndefUnused, iserror |-> FALSE]

\* ------------------------------------------------------- stack primitives
Top(s) == s[Len(s)]

\* duk_set_top(): index relative to valstack_bottom, new slots are undefined
duk_set_top(th, n) ==
  LET newtop == th.valstack_bottom + n
      len == Len(th.valstack)
  IN [th EXCEPT !.valstack =
        IF newtop <= len THEN SubSeq(@, 1, newtop)
        ELSE @ \o [i \in 1..(newtop - len) |-> Undef]]

\* DUK_CAT_HAS_xxx for the flags only catchers made by a TRYCATCH with a
\* catch binding carry
DUK_CAT_HAS_CATCH_BINDING_ENABLED(cat) ==
  "catch_binding_enabled" \in DOMAIN cat /\ cat.catch_binding_enabled

DUK_CAT_HAS_LEXENV_ACTIVE(cat) == "lexenv_active" \in DOMAIN cat /\ cat.lexenv_active

\* act->lex_env = DUK_HOBJECT_GET_PROTOTYPE(act->lex_env) for the activation
\* with C index act_idx; environments are numbered, th.envs[e] is the record
\* of environment e and 0 is NULL
PopLexEnv(th, act_idx) ==
  [th EXCEPT !.callstack[act_idx + 1].lex_env = th.envs[@].outer]

\* duk_hthread_catchstack_unwind(): drop catchers [new_top, catchstack_top),
\* from the top; a catcher with an active lexical environment pops it from
\* its activation
RECURSIVE duk_hthread_catchstack_unwind(_, _)
duk_hthread_catchstack_unwind(th, new_top) ==
  IF \A k \in (new_top + 1)..Len(th.catchstack) : ~DUK_CAT_HAS_LEXENV_ACTIVE(th.catchstack[k])
  THEN [th EXCEPT !.catchstack = SubSeq(@, 1, new_top)]
  ELSE LET cat == Top(th.catchstack)
           t1 == IF DUK_CAT_HAS_LEXENV_ACTIVE(cat) THEN PopLexEnv(th, cat.callstack_index) ELSE th
       IN duk_hthread_catchstack_unwind(
            [t1 EXCEPT !.catchstack = SubSeq(@, 1, Len(@) - 1)], new_top)

\* duk_hthread_callstack_unwind(): drop activations [new_top, callstack_top)
duk_hthread_callstack_unwind(th, new_top) ==
  [th EXCEPT !.callstack = SubSeq(@, 1, new_top)]

\* duk_hthread_terminate(): thread state TERMINATED, stacks released
duk_hthread_terminate(th) ==
  [th EXCEPT !.state = "TERMINATED", !.callstack = <<>>, !.catchstack = <<>>,
             !.valstack = <<>>, !.valstack_bottom = 0]

\* DUK_TVAL_SET_TVAL on valstack[idx] with the save / install / release order
SetSlot(th, idx, v) == [th EXCEPT !.valstack[idx + 1] = v]

\* variant: the value stack is clamped after the return value and not
\* extended to the registers of the function again
duk__reconfig_valstack_clamp_only(th, act_idx, retval_count) ==
  LET act == th.callstack[act_idx + 1]
      t1 == [th EXCEPT !.valstack_bottom = act.idx_bottom]
  IN duk_set_top(t1, act.idx_retval - act.idx_bottom + retval_count)

duk__reconfig_valstack(th, act_idx, retval_count) ==
  LET act == th.callstack[act_idx + 1]
      t1 == [th EXCEPT !.valstack_bottom = act.idx_bottom]
      t2 == duk_set_top(t1, act.idx_retval - act.idx_bottom + retval_count)
  IN duk_set_top(t2, act.nregs)

\* duk_js_init_activation_environment_records_delayed(): the environment of
\* the function is built when the activation has none yet (lex_env == NULL)
duk_js_init_activation_environment_records_delayed(th) ==
  LET env == [outer |-> 0, varname |-> UndefUnused, value |-> UndefUnused]
      e == Len(th.envs) + 1
  IN [th EXCEPT !.envs = Append(@, env),
                !.callstack[Len(th.callstack)].lex_env = e,
                !.callstack[Len(th.callstack)].var_env = e]

\* variant: the new environment is made without an outer environment
CatchBinding_no_outer(th, lj, cat_idx) ==
  LET t1 == IF Top(th.callstack).lex_env = 0
            THEN duk_js_init_activation_environment_records_delayed(th)
            ELSE th
      new_env == [outer |-> 0, varname |-> t1.catchstack[cat_idx + 1].h_varname,
                  value |-> lj.value1]
  IN [t1 EXCEPT !.envs = Append(@, new_env),
                !.callstack[Len(t1.callstack)].lex_env = Len(t1.envs) + 1,
                !.catchstack[cat_idx + 1].lexenv_active = TRUE]

\* the catch binding of duk__handle_catch_or_finally(): a declarative
\* environment on top of act->lex_env binds h_varname to lj.value1
CatchBinding(th, lj, cat_idx) ==
  LET t1 == IF Top(th.callstack).lex_env = 0
            THEN duk_js_init_activation_environment_records_delayed(th)
            ELSE th
      act_lex_env == Top(t1.callstack).lex_env
      new_env == [outer |-> act_lex_env, varname |-> t1.catchstack[cat_idx + 1].h_varname,
                  value |-> lj.value1]
  IN [t1 EXCEPT !.envs = Append(@, new_env),
                !.callstack[Len(t1.callstack)].lex_env = Len(t1.envs) + 1,
                !.catchstack[cat_idx + 1].lexenv_active = TRUE]

\* variant: the finally part is entered at the jump slot of the catch part
duk__handle_catch_or_finally_slot0(th, lj, cat_idx, is_finally) ==
  LET cat == th.catchstack[cat_idx + 1]
      t1 == SetSlot(th, cat.idx_base, lj.value1)
      t2 == SetSlot(t1, cat.idx_base + 1, Num(LjTypeNum[lj.type]))
      t3 == duk_hthread_catchstack_unwind(t2, cat_idx + 1)
      t4 == duk_hthread_callstack_unwind(t3, cat.callstack_index + 1)
      act == Top(t4.callstack)
      t5 == duk_set_top([t4 EXCEPT !.valstack_bottom = act.idx_bottom], act.nregs)
      t6 == [t5 EXCEPT !.callstack[Len(t5.callstack)].pc = cat.pc_base]
  IN IF is_finally
     THEN [t6 EXCEPT !.catchstack[cat_idx + 1].finally_enabled = FALSE]
     ELSE [t6 EXCEPT !.catchstack[cat_idx + 1].catch_enabled = FALSE]

\* variant: the finally part is entered with a normal completion recorded
duk__handle_catch_or_finally_kind_normal(th, lj, cat_idx, is_finally) ==
  LET cat == th.catchstack[cat_idx + 1]
      t1 == SetSlot(th, cat.idx_base, lj.value1)
      t2 == SetSlot(t1, cat.idx_base + 1,
                    Num(LjTypeNum[IF is_finally THEN "NORMAL" ELSE lj.type]))
      t3 == duk_hthread_catchstack_unwind(t2, cat_idx + 1)
      t4 == duk_hthread_callstack_unwind(t3, cat.callstack_index + 1)
      act == Top(t4.callstack)
      t5 == duk_set_top([t4 EXCEPT !.valstack_bottom = act.idx_bottom], act.nregs)
      t6 == [t5 EXCEPT !.callstack[Len(t5.callstack)].pc =
                          cat.pc_base + (IF is_finally THEN 1 ELSE 0)]
  IN IF is_finally
     THEN [t6 EXCEPT !.catchstack[cat_idx + 1].finally_enabled = FALSE]
     ELSE [t6 EXCEPT !.catchstack[cat_idx + 1].catch_enabled = FALSE]

\* variant: the catchers above the one that takes the transfer are kept
duk__handle_catch_or_finally_keep_catchers(th, lj, cat_idx, is_finally) ==
  LET cat == th.catchstack[cat_idx + 1]
      t1 == SetSlot(th, cat.idx_base, lj.value1)
      t2 == SetSlot(t1, cat.idx_base + 1, Num(LjTypeNum[lj.type]))
      t4 == duk_hthread_callstack_unwind(t2, cat.callstack_index + 1)
      act == Top(t4.callstack)
      t5 == duk_set_top([t4 EXCEPT !.valstack_bottom = act.idx_bottom], act.nregs)
      t6 == [t5 EXCEPT !.callstack[Len(t5.callstack)].pc =
                          cat.pc_base + (IF is_finally THEN 1 ELSE 0)]
      t7 == IF ~is_finally /\ DUK_CAT_HAS_CATCH_BINDING_ENABLED(cat)
            THEN CatchBinding(t6, lj, cat_idx)
            ELSE t6
  IN IF is_finally
     THEN [t7 EXCEPT !.catchstack[cat_idx + 1].finally_enabled = FALSE]
     ELSE [t7 EXCEPT !.catchstack[cat_idx + 1].catch_enabled = FALSE]

duk__handle_catch_or_finally(th, lj, cat_idx, is_finally) ==
  LET cat == th.catchstack[cat_idx + 1]
      t1 == SetSlot(th, cat.idx_base, lj.value1)
      t2 == SetSlot(t1, cat.idx_base + 1, Num(LjTypeNum[lj.type]))
      t3 == duk_hthread_catchstack_unwind(t2, cat_idx + 1)
      t4 == duk_hthread_callstack_unwind(t3, cat.callstack_index + 1)
      act == Top(t4.callstack)
      t5 == duk_set_top([t4 EXCEPT !.valstack_bottom = act.idx_bottom], act.nregs)
      t6 == [t5 EXCEPT !.callstack[Len(t5.callstack)].pc =
                          cat.pc_base + (IF is_finally THEN 1 ELSE 0)]
      t7 == IF ~is_finally /\ DUK_CAT_HAS_CATCH_BINDING_ENABLED(cat)
            THEN CatchBinding(t6, lj, cat_idx)
            ELSE t6
  IN IF is_finally
     THEN [t7 EXCEPT !.catchstack[cat_idx + 1].finally_enabled = FALSE]
     ELSE [t7 EXCEPT !.catchstack[cat_idx + 1].catch_enabled = FALSE]

\* variant: the label catcher is unwound together with the catchers above it
duk__handle_label_unwind_self(th, lj, cat_idx) ==
  LET cat == th.catchstack[cat_idx + 1]
      t1 == [th EXCEPT !.callstack[Len(th.callstack)].pc =
                          cat.pc_base + (IF lj.type = "CONTINUE" THEN 1 ELSE 0)]
  IN duk_hthread_catchstack_unwind(t1, cat_idx)

duk__handle_label(th, lj, cat_idx) ==
  LET cat == th.catchstack[cat_idx + 1]
      t1 == [th EXCEPT !.callstack[Len(th.callstack)].pc =
                          cat.pc_base + (IF lj.type = "CONTINUE" THEN 1 ELSE 0)]
  IN duk_hthread_catchstack_unwind(t1, cat_idx + 1)

\* 'resumer' is the thread record of the resumer; the caller switches threads
\* variant: the resume() / yield() frame of the resumer is left on its call stack
duk__handle_yield_keep_frame(resumer, lj, act_idx) ==
  LET t1 == SetSlot(resumer, resumer.callstack[act_idx + 1].idx_retval, lj.value1)
  IN duk__reconfig_valstack(t1, act_idx, 1)

\* variant: the value stack of the resumer is clamped below the result slot
duk__handle_yield_no_retval(resumer, lj, act_idx) ==
  LET t1 == SetSlot(resumer, resumer.callstack[act_idx + 1].idx_retval, lj.value1)
      t2 == duk_hthread_callstack_unwind(t1, act_idx + 1)
  IN duk__reconfig_valstack(t2, act_idx, 0)

duk__handle_yield(resumer, lj, act_idx) ==
  LET t1 == SetSlot(resumer, resumer.callstack[act_idx + 1].idx_retval, lj.value1)
      t2 == duk_hthread_callstack_unwind(t1, act_idx + 1)
  IN duk__reconfig_valstack(t2, act_idx, 1)


\* ------------------------------------------------------ catch stack scans
\* variant: the RETURN scan does not stop at the catchers of other activations
RECURSIVE duk__scan_return_any_frame(_, _, _)
duk__scan_return_any_frame(cs, i, orig) ==
  IF i < 0 THEN [found |-> FALSE, cat |-> i]
  ELSE IF cs[i + 1].type = "TCF" /\ cs[i + 1].finally_enabled /\ cs[i + 1].callstack_index = orig
       THEN [found |-> TRUE, cat |-> i]
       ELSE duk__scan_return_any_frame(cs, i - 1, orig)

\* variant: the RETURN scan passes finally-enabled catchers
RECURSIVE duk__scan_return_no_finally(_, _, _)
duk__scan_return_no_finally(cs, i, orig) ==
  IF i < 0 THEN [found |-> FALSE, cat |-> i]
  ELSE IF cs[i + 1].callstack_index # orig THEN [found |-> FALSE, cat |-> i]
       ELSE duk__scan_return_no_finally(cs, i - 1, orig)

\* variant: a TCF catcher takes a Return whether or not its finally part
\* is still pending
RECURSIVE duk__scan_return_ignore_flag(_, _, _)
duk__scan_return_ignore_flag(cs, i, orig) ==
  IF i < 0 THEN [found |-> FALSE, cat |-> i]
  ELSE IF cs[i + 1].callstack_index # orig THEN [found |-> FALSE, cat |-> i]
  ELSE IF cs[i + 1].type = "TCF"
       THEN [found |-> TRUE, cat |-> i]
       ELSE duk__scan_return_ignore_flag(cs, i - 1, orig)

\* RETURN: walk down from catcher i while the catcher belongs to activation
\* 'orig'; stop at a TCF catcher with finally enabled.  'cat' is the C value
\* of (cat - thr->catchstack) when the loop is left.
RECURSIVE duk__scan_return(_, _, _)
duk__scan_return(cs, i, orig) ==
  IF i < 0 THEN [found |-> FALSE, cat |-> i]
  ELSE IF cs[i + 1].callstack_index # orig THEN [found |-> FALSE, cat |-> i]
  ELSE IF cs[i + 1].type = "TCF" /\ cs[i + 1].finally_enabled
       THEN [found |-> TRUE, cat |-> i]
       ELSE duk__scan_return(cs, i - 1, orig)

\* variant: the BREAK / CONTINUE scan passes finally-enabled catchers
RECURSIVE duk__scan_break_no_finally(_, _, _, _)
duk__scan_break_no_finally(cs, i, orig, lj_label) ==
  IF i < 0 THEN [kind |-> "none", cat |-> i]
  ELSE IF cs[i + 1].callstack_index # orig THEN [kind |-> "none", cat |-> i]
  ELSE IF cs[i + 1].type = "LABEL" /\ cs[i + 1].label = lj_label
       THEN [kind |-> "label", cat |-> i]
       ELSE duk__scan_break_no_finally(cs, i - 1, orig, lj_label)

\* BREAK / CONTINUE: as above, and also stop at a label catcher with lj_label
RECURSIVE duk__scan_break(_, _, _, _)
duk__scan_break(cs, i, orig, lj_label) ==
  IF i < 0 THEN [kind |-> "none", cat |-> i]
  ELSE IF cs[i + 1].callstack_index # orig THEN [kind |-> "none", cat |-> i]
  ELSE IF cs[i + 1].type = "TCF" /\ cs[i + 1].finally_enabled
       THEN [kind |-> "finally", cat |-> i]
  ELSE IF cs[i + 1].type = "LABEL" /\ cs[i + 1].label = lj_label
       THEN [kind |-> "label", cat |-> i]
       ELSE duk__scan_break(cs, i - 1, orig, lj_label)

\* variant: the THROW scan tests the finally part before the catch part
RECURSIVE duk__scan_throw_finally_first(_, _, _, _)
duk__scan_throw_finally_first(cs, i, is_entry_thread, entry_callstack_index) ==
  IF i < 0 THEN [kind |-> "none", cat |-> i]
  ELSE IF is_entry_thread /\ cs[i + 1].callstack_index < entry_callstack_index
       THEN [kind |-> "none", cat |-> i]
  ELSE IF cs[i + 1].finally_enabled THEN [kind |-> "finally", cat |-> i]
  ELSE IF cs[i + 1].catch_enabled THEN [kind |-> "catch", cat |-> i]
       ELSE duk__scan_throw_finally_first(cs, i - 1, is_entry_thread, entry_callstack_index)

\* variant: the THROW scan goes on below the entry level
RECURSIVE duk__scan_throw_below_entry(_, _, _, _)
duk__scan_throw_below_entry(cs, i, is_entry_thread, entry_callstack_index) ==
  IF i < 0 THEN [kind |-> "none", cat |-> i]
  ELSE IF cs[i + 1].catch_enabled THEN [kind |-> "catch", cat |-> i]
  ELSE IF cs[i + 1].finally_enabled THEN [kind |-> "finally", cat |-> i]
       ELSE duk__scan_throw_below_entry(cs, i - 1, is_entry_thread, entry_callstack_index)

\* THROW: stop below the entry level of the entry thread; a catcher with
\* catch enabled catches, otherwise one with finally enabled
RECURSIVE duk__scan_throw(_, _, _, _)
duk__scan_throw(cs, i, is_entry_thread, entry_callstack_index) ==
  IF i < 0 THEN [kind |-> "none", cat |-> i]
  ELSE IF is_entry_thread /\ cs[i + 1].callstack_index < entry_callstack_index
       THEN [kind |-> "none", cat |-> i]
  ELSE IF cs[i + 1].catch_enabled THEN [kind |-> "catch", cat |-> i]
  ELSE IF cs[i + 1].finally_enabled THEN [kind |-> "finally", cat |-> i]
       ELSE duk__scan_throw(cs, i - 1, is_entry_thread, entry_callstack_index)

\* ------------------------------------------------------- handler outcomes
\* variant: only the type of the longjmp state is reset
WipeAndReturn_type_only(thrs, hp, retval) ==
  [threads |-> thrs, heap |-> [hp EXCEPT !.lj.type = "UNKNOWN"], exec |-> retval]

\* wipe_and_return: the longjmp state is reset and retval is handed back
WipeAndReturn(thrs, hp, retval) ==
  [threads |-> thrs, heap |-> [hp EXCEPT !.lj = LjUnknown], exec |-> retval]

\* goto check_longjmp: the handler goes round again with the state as set
CheckLongjmp(thrs, hp) == [threads |-> thrs, heap |-> hp, exec |-> "longjmp"]

\* convert_to_internal_error: DUK_ERROR() leaves through the entry catchpoint
ConvertToInternalError(thrs, hp) ==
  [threads |-> thrs,
   heap |-> [hp EXCEPT !.lj = [type |-> "THROW", value1 |-> InternalError,
                               value2 |-> UndefUnused, iserror |-> TRUE]],
   exec |-> "error"]

\* a NULL thr->resumer is dereferenced (only asserted against)
NullResumer(thrs, hp) == [threads |-> thrs, heap |-> hp, exec |-> "crash"]

\* duk_handle_ecma_call_setup() for a compiled callee with 'nregs' registers:
\* [ ... func this arg1 .. argN ] is on the value stack top
duk_handle_ecma_call_setup(th, num_stack_args, nregs) ==
  LET idx_func == Len(th.valstack) - num_stack_args - 2
      t1 == IF th.callstack = <<>> THEN th
            ELSE [th EXCEPT !.callstack[Len(th.callstack)].idx_retval = idx_func]
      act0 == [func |-> "ecma", pc |-> 0, idx_bottom |-> idx_func + 2,
               idx_retval |-> 0, nregs |-> nregs]
      \* the environments of the callee are built when first needed
      act == IF "envs" \in DOMAIN th THEN act0 @@ [lex_env |-> 0, var_env |-> 0] ELSE act0
      t2 == [t1 EXCEPT !.callstack = Append(@, act), !.valstack_bottom = idx_func + 2]
  IN duk_set_top(t2, nregs)

\* duk_handle_call() up to the point where a native built-in that longjmps
\* (Duktape.Thread.resume / yield) has been entered
NativeCallEnter(th, num_stack_args, func) ==
  LET idx_func == Len(th.valstack) - num_stack_args - 2
      t1 == [th EXCEPT !.callstack[Len(th.callstack)].idx_retval = idx_func]
      act == [func |-> func, pc |-> 0, idx_bottom |-> idx_func + 2,
              idx_retval |-> 0, nregs |-> 0]
  IN [t1 EXCEPT !.callstack = Append(@, act), !.valstack_bottom = idx_func + 2]

\* variant: a YIELDED resumee keeps its yield() frame
duk__lj_resume_keep_yield_frame(thrs, hp, en) ==
  LET t == hp.curr_thread
      r == hp.lj.value2.n
      resumee == thrs[r]
      switched(newresumee) ==
        [thrs EXCEPT ![r] = [newresumee EXCEPT !.resumer = t, !.state = "RUNNING"],
                     ![t].state = "RESUMED"]
  IN IF hp.lj.iserror
     THEN CheckLongjmp(switched(resumee),
                       [hp EXCEPT !.curr_thread = r, !.lj.type = "THROW"])
     ELSE IF resumee.state = "YIELDED"
     THEN LET act_idx == Len(resumee.callstack) - 2
              t1 == SetSlot(resumee, resumee.callstack[act_idx + 1].idx_retval, hp.lj.value1)
          IN WipeAndReturn(switched(t1), [hp EXCEPT !.curr_thread = r], "run")
     ELSE LET t1 == [resumee EXCEPT !.valstack = @ \o <<Undef, hp.lj.value1>>]
              t2 == duk_handle_ecma_call_setup(t1, 1, NRegs)
          IN WipeAndReturn(switched(t2), [hp EXCEPT !.curr_thread = r], "run")

\* variant: the initial call gets the resume value as 'this' and no argument
duk__lj_resume_value_as_this(thrs, hp, en) ==
  LET t == hp.curr_thread
      r == hp.lj.value2.n
      resumee == thrs[r]
      switched(newresumee) ==
        [thrs EXCEPT ![r] = [newresumee EXCEPT !.resumer = t, !.state = "RUNNING"],
                     ![t].state = "RESUMED"]
  IN IF hp.lj.iserror
     THEN CheckLongjmp(switched(resumee),
                       [hp EXCEPT !.curr_thread = r, !.lj.type = "THROW"])
     ELSE IF resumee.state = "YIELDED"
     THEN LET act_idx == Len(resumee.callstack) - 2
              t1 == SetSlot(resumee, resumee.callstack[act_idx + 1].idx_retval, hp.lj.value1)
              t2 == duk_hthread_callstack_unwind(t1, act_idx + 1)
              t3 == duk__reconfig_valstack(t2, act_idx, 1)
          IN WipeAndReturn(switched(t3), [hp EXCEPT !.curr_thread = r], "run")
     ELSE LET t1 == [resumee EXCEPT !.valstack = @ \o <<hp.lj.value1>>]
              t2 == duk_handle_ecma_call_setup(t1, 0, NRegs)
          IN WipeAndReturn(switched(t2), [hp EXCEPT !.curr_thread = r], "run")

\* variant: a resume with an error delivers the value as a normal resume value
duk__lj_resume_ignore_iserror(thrs, hp, en) ==
  LET t == hp.curr_thread
      r == hp.lj.value2.n
      resumee == thrs[r]
      switched(newresumee) ==
        [thrs EXCEPT ![r] = [newresumee EXCEPT !.resumer = t, !.state = "RUNNING"],
                     ![t].state = "RESUMED"]
  IN IF resumee.state = "YIELDED"
     THEN LET act_idx == Len(resumee.callstack) - 2
              t1 == SetSlot(resumee, resumee.callstack[act_idx + 1].idx_retval, hp.lj.value1)
              t2 == duk_hthread_callstack_unwind(t1, act_idx + 1)
              t3 == duk__reconfig_valstack(t2, act_idx, 1)
          IN WipeAndReturn(switched(t3), [hp EXCEPT !.curr_thread = r], "run")
     ELSE LET t1 == [resumee EXCEPT !.valstack = @ \o <<Undef, hp.lj.value1>>]
              t2 == duk_handle_ecma_call_setup(t1, 1, NRegs)
          IN WipeAndReturn(switched(t2), [hp EXCEPT !.curr_thread = r], "run")

\* variant: the resumer stays RUNNING while the resumed thread runs
duk__lj_resume_resumer_running(thrs, hp, en) ==
  LET t == hp.curr_thread
      r == hp.lj.value2.n
      resumee == thrs[r]
      switched(newresumee) ==
        [thrs EXCEPT ![r] = [newresumee EXCEPT !.resumer = t, !.state = "RUNNING"]]
  IN IF hp.lj.iserror
     THEN CheckLongjmp(switched(resumee),
                       [hp EXCEPT !.curr_thread = r, !.lj.type = "THROW"])
     ELSE IF resumee.state = "YIELDED"
     THEN LET act_idx == Len(resumee.callstack) - 2
              t1 == SetSlot(resumee, resumee.callstack[act_idx + 1].idx_retval, hp.lj.value1)
              t2 == duk_hthread_callstack_unwind(t1, act_idx + 1)
              t3 == duk__reconfig_valstack(t2, act_idx, 1)
          IN WipeAndReturn(switched(t3), [hp EXCEPT !.curr_thread = r], "run")
     ELSE LET t1 == [resumee EXCEPT !.valstack = @ \o <<Undef, hp.lj.value1>>]
              t2 == duk_handle_ecma_call_setup(t1, 1, NRegs)
          IN WipeAndReturn(switched(t2), [hp EXCEPT !.curr_thread = r], "run")

\* case DUK_LJ_TYPE_RESUME
duk__lj_resume(thrs, hp, en) ==
  LET t == hp.curr_thread
      r == hp.lj.value2.n
      resumee == thrs[r]
      switched(newresumee) ==
        [thrs EXCEPT ![r] = [newresumee EXCEPT !.resumer = t, !.state = "RUNNING"],
                     ![t].state = "RESUMED"]
  IN IF hp.lj.iserror
     THEN CheckLongjmp(switched(resumee),
                       [hp EXCEPT !.curr_thread = r, !.lj.type = "THROW"])
     ELSE IF resumee.state = "YIELDED"
     THEN LET act_idx == Len(resumee.callstack) - 2
              t1 == SetSlot(resumee, resumee.callstack[act_idx + 1].idx_retval, hp.lj.value1)
              t2 == duk_hthread_callstack_unwind(t1, act_idx + 1)
              t3 == duk__reconfig_valstack(t2, act_idx, 1)
          IN WipeAndReturn(switched(t3), [hp EXCEPT !.curr_thread = r], "run")
     ELSE LET t1 == [resumee EXCEPT !.valstack = @ \o <<Undef, hp.lj.value1>>]
              t2 == duk_handle_ecma_call_setup(t1, 1, NRegs)
          IN WipeAndReturn(switched(t2), [hp EXCEPT !.curr_thread = r], "run")

\* variant: the yielding thread keeps its resumer
duk__lj_yield_keep_resumer(thrs, hp, en) ==
  LET t == hp.curr_thread
      r == thrs[t].resumer
      resumer == thrs[r]
  IN IF hp.lj.iserror
     THEN CheckLongjmp([thrs EXCEPT ![t].state = "YIELDED", ![t].resumer = 0,
                                    ![r].state = "RUNNING"],
                       [hp EXCEPT !.curr_thread = r, !.lj.type = "THROW"])
     ELSE LET r1 == duk__handle_yield(resumer, hp.lj, Len(resumer.callstack) - 2)
          IN WipeAndReturn([thrs EXCEPT ![t].state = "YIELDED",
                                        ![r] = [r1 EXCEPT !.state = "RUNNING"]],
                           [hp EXCEPT !.curr_thread = r], "run")

\* variant: a thread that yields an error is terminated
duk__lj_yield_error_terminates(thrs, hp, en) ==
  LET t == hp.curr_thread
      r == thrs[t].resumer
      resumer == thrs[r]
  IN IF hp.lj.iserror
     THEN CheckLongjmp([thrs EXCEPT ![t] = [duk_hthread_terminate(thrs[t]) EXCEPT !.resumer = 0],
                                    ![r].state = "RUNNING"],
                       [hp EXCEPT !.curr_thread = r, !.lj.type = "THROW"])
     ELSE LET r1 == duk__handle_yield(resumer, hp.lj, Len(resumer.callstack) - 2)
          IN WipeAndReturn([thrs EXCEPT ![t].state = "YIELDED", ![t].resumer = 0,
                                        ![r] = [r1 EXCEPT !.state = "RUNNING"]],
                           [hp EXCEPT !.curr_thread = r], "run")

\* case DUK_LJ_TYPE_YIELD
duk__lj_yield(thrs, hp, en) ==
  LET t == hp.curr_thread
      r == thrs[t].resumer
      resumer == thrs[r]
  IN IF hp.lj.iserror
     THEN CheckLongjmp([thrs EXCEPT ![t].state = "YIELDED", ![t].resumer = 0,
                                    ![r].state = "RUNNING"],
                       [hp EXCEPT !.curr_thread = r, !.lj.type = "THROW"])
     ELSE LET r1 == duk__handle_yield(resumer, hp.lj, Len(resumer.callstack) - 2)
          IN WipeAndReturn([thrs EXCEPT ![t].state = "YIELDED", ![t].resumer = 0,
                                        ![r] = [r1 EXCEPT !.state = "RUNNING"]],
                           [hp EXCEPT !.curr_thread = r], "run")

\* case DUK_LJ_TYPE_RETURN
\* variant: a return to the caller leaves the catchers of the returning
\* frame on the catch stack
duk__lj_return_keep_catchers(thrs, hp, en) ==
  LET t == hp.curr_thread
      th == thrs[t]
      orig_callstack_index == Len(th.callstack) - 1
      sc == duk__scan_return(th.catchstack, Len(th.catchstack) - 1, orig_callstack_index)
  IN IF sc.found
     THEN WipeAndReturn([thrs EXCEPT ![t] = duk__handle_catch_or_finally(th, hp.lj, sc.cat, TRUE)],
                        hp, "run")
     ELSE IF t = en.thread /\ Len(th.callstack) = en.callstack_top
     THEN WipeAndReturn([thrs EXCEPT ![t].valstack = Append(@, hp.lj.value1)],
                        hp, "finished")
     ELSE IF Len(th.callstack) >= 2
     THEN LET t1 == SetSlot(th, th.callstack[Len(th.callstack) - 1].idx_retval, hp.lj.value1)
              t3 == duk_hthread_callstack_unwind(t1, Len(t1.callstack) - 1)
              t4 == duk__reconfig_valstack(t3, Len(t3.callstack) - 1, 1)
          IN WipeAndReturn([thrs EXCEPT ![t] = t4], hp, "run")
     ELSE IF th.resumer = 0 THEN NullResumer(thrs, hp)
     ELSE LET r == th.resumer
              r1 == duk__handle_yield(thrs[r], hp.lj, Len(thrs[r].callstack) - 2)
          IN WipeAndReturn([thrs EXCEPT ![t] = [duk_hthread_terminate(th) EXCEPT !.resumer = 0],
                                        ![r] = [r1 EXCEPT !.state = "RUNNING"]],
                           [hp EXCEPT !.curr_thread = r], "run")

\* variant: a finished thread hands over to its resumer without marking it
\* RUNNING
duk__lj_return_resumer_not_running(thrs, hp, en) ==
  LET t == hp.curr_thread
      th == thrs[t]
      orig_callstack_index == Len(th.callstack) - 1
      sc == duk__scan_return(th.catchstack, Len(th.catchstack) - 1, orig_callstack_index)
  IN IF sc.found
     THEN WipeAndReturn([thrs EXCEPT ![t] = duk__handle_catch_or_finally(th, hp.lj, sc.cat, TRUE)],
                        hp, "run")
     ELSE IF t = en.thread /\ Len(th.callstack) = en.callstack_top
     THEN WipeAndReturn([thrs EXCEPT ![t].valstack = Append(@, hp.lj.value1)],
                        hp, "finished")
     ELSE IF Len(th.callstack) >= 2
     THEN LET t1 == SetSlot(th, th.callstack[Len(th.callstack) - 1].idx_retval, hp.lj.value1)
              t2 == duk_hthread_catchstack_unwind(t1, sc.cat + 1)
              t3 == duk_hthread_callstack_unwind(t2, Len(t2.callstack) - 1)
              t4 == duk__reconfig_valstack(t3, Len(t3.callstack) - 1, 1)
          IN WipeAndReturn([thrs EXCEPT ![t] = t4], hp, "run")
     ELSE IF th.resumer = 0 THEN NullResumer(thrs, hp)
     ELSE LET r == th.resumer
              r1 == duk__handle_yield(thrs[r], hp.lj, Len(thrs[r].callstack) - 2)
          IN WipeAndReturn([thrs EXCEPT ![t] = [duk_hthread_terminate(th) EXCEPT !.resumer = 0],
                                        ![r] = r1],
                           [hp EXCEPT !.curr_thread = r], "run")

duk__lj_return(thrs, hp, en) ==
  LET t == hp.curr_thread
      th == thrs[t]
      orig_callstack_index == Len(th.callstack) - 1
      sc == duk__scan_return(th.catchstack, Len(th.catchstack) - 1, orig_callstack_index)
  IN IF sc.found
     THEN WipeAndReturn([thrs EXCEPT ![t] = duk__handle_catch_or_finally(th, hp.lj, sc.cat, TRUE)],
                        hp, "run")
     ELSE IF t = en.thread /\ Len(th.callstack) = en.callstack_top
     THEN WipeAndReturn([thrs EXCEPT ![t].valstack = Append(@, hp.lj.value1)],
                        hp, "finished")
     ELSE IF Len(th.callstack) >= 2
     THEN LET t1 == SetSlot(th, th.callstack[Len(th.callstack) - 1].idx_retval, hp.lj.value1)
              t2 == duk_hthread_catchstack_unwind(t1, sc.cat + 1)
              t3 == duk_hthread_callstack_unwind(t2, Len(t2.callstack) - 1)
              t4 == duk__reconfig_valstack(t3, Len(t3.callstack) - 1, 1)
          IN WipeAndReturn([thrs EXCEPT ![t] = t4], hp, "run")
     ELSE IF th.resumer = 0 THEN NullResumer(thrs, hp)
     ELSE LET r == th.resumer
              r1 == duk__handle_yield(thrs[r], hp.lj, Len(thrs[r].callstack) - 2)
          IN WipeAndReturn([thrs EXCEPT ![t] = [duk_hthread_terminate(th) EXCEPT !.resumer = 0],
                                        ![r] = [r1 EXCEPT !.state = "RUNNING"]],
                           [hp EXCEPT !.curr_thread = r], "run")

\* case DUK_LJ_TYPE_BREAK / DUK_LJ_TYPE_CONTINUE
duk__lj_break_continue(thrs, hp, en) ==
  LET t == hp.curr_thread
      th == thrs[t]
      top == Len(th.catchstack) - 1
  IN IF top < 0 THEN ConvertToInternalError(thrs, hp)
     ELSE LET orig_callstack_index == th.catchstack[top + 1].callstack_index
              sc == duk__scan_break(th.catchstack, top, orig_callstack_index, hp.lj.value1.n)
          IN IF sc.kind = "finally"
             THEN WipeAndReturn([thrs EXCEPT ![t] = duk__handle_catch_or_finally(th, hp.lj, sc.cat, TRUE)],
                                hp, "run")
             ELSE IF sc.kind = "label"
             THEN WipeAndReturn([thrs EXCEPT ![t] = duk__handle_label(th, hp.lj, sc.cat)],
                                hp, "run")
             ELSE ConvertToInternalError(thrs, hp)

\* variant: an uncaught Throw is handed to the resumer without terminating
\* the thread it came from
duk__lj_throw_no_terminate(thrs, hp, en) ==
  LET t == hp.curr_thread
      th == thrs[t]
      sc == duk__scan_throw(th.catchstack, Len(th.catchstack) - 1,
                            t = en.thread, en.callstack_top - 1)
  IN IF sc.kind = "catch"
     THEN WipeAndReturn([thrs EXCEPT ![t] = duk__handle_catch_or_finally(th, hp.lj, sc.cat, FALSE)],
                        hp, "run")
     ELSE IF sc.kind = "finally"
     THEN WipeAndReturn([thrs EXCEPT ![t] = duk__handle_catch_or_finally(th, hp.lj, sc.cat, TRUE)],
                        hp, "run")
     ELSE IF t = en.thread
     THEN [threads |-> thrs, heap |-> hp, exec |-> "rethrown"]
     ELSE IF th.resumer = 0 THEN NullResumer(thrs, hp)
     ELSE LET r == th.resumer
          IN CheckLongjmp([thrs EXCEPT ![t].state = "YIELDED", ![r].state = "RUNNING"],
                          [hp EXCEPT !.curr_thread = r])

\* variant: the thread terminated by an uncaught Throw keeps its resumer
duk__lj_throw_keep_resumer(thrs, hp, en) ==
  LET t == hp.curr_thread
      th == thrs[t]
      sc == duk__scan_throw(th.catchstack, Len(th.catchstack) - 1,
                            t = en.thread, en.callstack_top - 1)
  IN IF sc.kind = "catch"
     THEN WipeAndReturn([thrs EXCEPT ![t] = duk__handle_catch_or_finally(th, hp.lj, sc.cat, FALSE)],
                        hp, "run")
     ELSE IF sc.kind = "finally"
     THEN WipeAndReturn([thrs EXCEPT ![t] = duk__handle_catch_or_finally(th, hp.lj, sc.cat, TRUE)],
                        hp, "run")
     ELSE IF t = en.thread
     THEN [threads |-> thrs, heap |-> hp, exec |-> "rethrown"]
     ELSE IF th.resumer = 0 THEN NullResumer(thrs, hp)
     ELSE LET r == th.resumer
          IN CheckLongjmp([thrs EXCEPT ![t] = duk_hthread_terminate(th),
                                       ![r].state = "RUNNING"],
                          [hp EXCEPT !.curr_thread = r])

\* case DUK_LJ_TYPE_THROW
duk__lj_throw(thrs, hp, en) ==
  LET t == hp.curr_thread
      th == thrs[t]
      sc == duk__scan_throw(th.catchstack, Len(th.catchstack) - 1,
                            t = en.thread, en.callstack_top - 1)
  IN IF sc.kind = "catch"
     THEN WipeAndReturn([thrs EXCEPT ![t] = duk__handle_catch_or_finally(th, hp.lj, sc.cat, FALSE)],
                        hp, "run")
     ELSE IF sc.kind = "finally"
     THEN WipeAndReturn([thrs EXCEPT ![t] = duk__handle_catch_or_finally(th, hp.lj, sc.cat, TRUE)],
                        hp, "run")
     ELSE IF t = en.thread
     THEN [threads |-> thrs, heap |-> hp, exec |-> "rethrown"]
     ELSE IF th.resumer = 0 THEN NullResumer(thrs, hp)
     ELSE LET r == th.resumer
          IN CheckLongjmp([thrs EXCEPT ![t] = [duk_hthread_terminate(th) EXCEPT !.resumer = 0],
                                       ![r].state = "RUNNING"],
                          [hp EXCEPT !.curr_thread = r])

\* BREAK / CONTINUE with an empty catch stack: cat->callstack_index is read
\* from the element before the catch stack array, ahead of the loop test
ReadsBelowCatchstack(thrs, hp) ==
  /\ hp.lj.type \in {"BREAK", "CONTINUE"}
  /\ thrs[hp.curr_thread].catchstack = <<>>

\* one pass of duk__handle_longjmp() from check_longjmp to its return, to the
\* next goto check_longjmp, or to the internal error
duk__handle_longjmp(thrs, hp, en) ==
  CASE hp.lj.type = "RESUME" -> duk__lj_resume(thrs, hp, en)
    [] hp.lj.type = "YIELD" -> duk__lj_yield(thrs, hp, en)
    [] hp.lj.type = "RETURN" -> duk__lj_return(thrs, hp, en)
    [] hp.lj.type \in {"BREAK", "CONTINUE"} -> duk__lj_break_continue(thrs, hp, en)
    [] hp.lj.type = "THROW" -> duk__lj_throw(thrs, hp, en)
    [] OTHER -> ConvertToInternalError(thrs, hp)

\* RESUME of an INACTIVE thread when duk_handle_ecma_call_setup() returns 0:
\* DUK_ERROR() before any thread state is assigned
duk__lj_resume_setup_failed(thrs, hp) ==
  LET r == hp.lj.value2.n
  IN ConvertToInternalError([thrs EXCEPT ![r].valstack = @ \o <<Undef, hp.lj.value1>>], hp)

\* what a handler pass may do: the out-of-bounds read is harmless (the value
\* read is not used) or stops the process
HandlerOutcomes(thrs, hp, en) ==
  {duk__handle_longjmp(thrs, hp, en)} \cup
  (IF ReadsBelowCatchstack(thrs, hp)
   THEN {[threads |-> thrs, heap |-> hp, exec |-> "crash"]}
   ELSE {}) \cup
  (IF hp.lj.type = "RESUME" /\ ~hp.lj.iserror /\ thrs[hp.lj.value2.n].state = "INACTIVE"
   THEN {duk__lj_resume_setup_failed(thrs, hp)}
   ELSE {})


\* ------------------------------------------------------------ dispatch loop
\* thr, act and the register window of the executing thread
cur == threads[heap.curr_thread]
SetCur(th) == threads' = [threads EXCEPT ![heap.curr_thread] = th]

\* #ifdef DUK_USE_INTERRUPT_COUNTER: the build keeps interrupt counters
DUK_USE_INTERRUPT_COUNTER(x) == "interrupt_counter" \in DOMAIN x

\* duk__executor_interrupt(): the counter of the thread after the hook; the
\* heap receives interrupt_init = ctr and interrupt_counter = ctr - 1
duk__executor_interrupt(th) ==
  LET ctr == DUK_HEAP_INTCTR_DEFAULT
  IN [th EXCEPT !.interrupt_counter = ctr - 1]

\* the interrupt counter check at the head of the dispatch loop
InterruptCheck(th) ==
  IF ~DUK_USE_INTERRUPT_COUNTER(th) THEN th
  ELSE IF th.interrupt_counter > 0
       THEN [th EXCEPT !.interrupt_counter = @ - 1]
       ELSE duk__executor_interrupt(th)

\* restart_execution: the counter of the thread is loaded from the heap
restart_execution(th, hp) ==
  IF DUK_USE_INTERRUPT_COUNTER(th) /\ DUK_USE_INTERRUPT_COUNTER(hp)
  THEN [th EXCEPT !.interrupt_counter = hp.interrupt_counter]
  ELSE th

\* one pass through the loop head: interrupt check, then ins = bcode[act->pc++]
Fetch(th) ==
  LET t1 == InterruptCheck(th)
  IN [t1 EXCEPT !.callstack[Len(t1.callstack)].pc = @ + 1]
CanFetch == exec = "run" /\ steps < MaxSteps

\* duk_err_setup_heap_ljstate(): the value on the stack top becomes lj.value1
duk_err_setup_heap_ljstate(hp, lj_type, v) ==
  [hp EXCEPT !.lj.type = lj_type, !.lj.value1 = v]

\* value stack slots reserved as catch registers by the live TCF catchers
CatchRegs(th) ==
  UNION {{th.catchstack[i].idx_base, th.catchstack[i].idx_base + 1} :
           i \in {j \in 1..Len(th.catchstack) : th.catchstack[j].type = "TCF"}}

\* a new catcher, owned by the current activation, jump slots at the fetched pc
NewCatcher(th, type, idx_base, has_catch, has_finally, label) ==
  [type |-> type, callstack_index |-> Len(th.callstack) - 1,
   pc_base |-> Top(th.callstack).pc, idx_base |-> idx_base,
   catch_enabled |-> has_catch, finally_enabled |-> has_finally, label |-> label]

\* the catcher ENDLABEL / ENDTRY / ENDCATCH / ENDFIN work on
TopCatcherIs(th, type) ==
  /\ th.catchstack # <<>>
  /\ Top(th.catchstack).type = type
  /\ Top(th.catchstack).callstack_index = Len(th.callstack) - 1

\* DUK_OP_JUMP (and every instruction without an effect on the modelled state)
OpJump ==
  /\ CanFetch
  /\ \E target \in 0..MaxPc :
       /\ target # Top(cur.callstack).pc
       /\ SetCur([Fetch(cur) EXCEPT !.callstack[Len(cur.callstack)].pc = target])
  /\ steps' = steps + 1 /\ UNCHANGED <<heap, entry, exec>>

\* DUK_OP_LDCONST
OpLdConst ==
  /\ CanFetch
  /\ \E a \in {NRegs - 1}, v \in Consts :
       /\ cur.valstack_bottom + a \notin CatchRegs(cur)
       /\ SetCur(SetSlot(Fetch(cur), cur.valstack_bottom + a, v))
  /\ steps' = steps + 1 /\ UNCHANGED <<heap, entry, exec>>

\* DUK__REGP(i): register i of the current activation
Reg(i) == cur.valstack[cur.valstack_bottom + i + 1]

\* duk__vm_arith_add(), the fast path for two numbers
duk__vm_arith_add(th, tv_x, tv_y, idx_z) ==
  SetSlot(th, th.valstack_bottom + idx_z, Num(tv_x.n + tv_y.n))

\* DUK_OP_ADD of two numbers: register a := x + y
Add(a, tv_x, tv_y) ==
  /\ CanFetch
  /\ tv_x.t = "number" /\ tv_y.t = "number"
  /\ SetCur(duk__vm_arith_add(Fetch(cur), tv_x, tv_y, a))
  /\ steps' = steps + 1 /\ UNCHANGED <<heap, entry, exec>>

\* DUK_OP_RETURN (slow return) of the value v of a register or constant
Return(v) ==
  /\ CanFetch
  /\ heap' = duk_err_setup_heap_ljstate(heap, "RETURN", v)
  /\ SetCur(Fetch(cur))
  /\ exec' = "longjmp"
  /\ steps' = steps + 1
  /\ UNCHANGED entry

OpReturn == \E v \in Consts \cup {Undef} : Return(v)

\* DUK_EXTRAOP_THROW
OpThrow ==
  /\ CanFetch
  /\ \E b \in {NRegs - 1} :
       heap' = duk_err_setup_heap_ljstate(heap, "THROW", cur.valstack[cur.valstack_bottom + b + 1])
  /\ SetCur(Fetch(cur))
  /\ exec' = "longjmp"
  /\ steps' = steps + 1
  /\ UNCHANGED entry

\* DUK_OP_BREAK
OpBreak ==
  /\ CanFetch
  /\ \E abc \in 1..MaxLabel :
       heap' = duk_err_setup_heap_ljstate(heap, "BREAK", Num(abc))
  /\ SetCur(Fetch(cur))
  /\ exec' = "longjmp"
  /\ steps' = steps + 1
  /\ UNCHANGED entry

\* DUK_OP_CONTINUE
OpContinue ==
  /\ CanFetch
  /\ \E abc \in 1..MaxLabel :
       heap' = duk_err_setup_heap_ljstate(heap, "CONTINUE", Num(abc))
  /\ SetCur(Fetch(cur))
  /\ exec' = "longjmp"
  /\ steps' = steps + 1
  /\ UNCHANGED entry

\* DUK_OP_LABEL
OpLabel ==
  /\ CanFetch
  /\ Len(cur.catchstack) < MaxCatchstack
  /\ \E abc \in 1..MaxLabel :
       LET t1 == Fetch(cur)
           cat == NewCatcher(t1, "LABEL", 0, FALSE, FALSE, abc)
       IN SetCur([t1 EXCEPT !.catchstack = Append(@, cat),
                            !.callstack[Len(t1.callstack)].pc = @ + 2])
  /\ steps' = steps + 1 /\ UNCHANGED <<heap, entry, exec>>

\* DUK_OP_ENDLABEL
OpEndLabel ==
  /\ CanFetch
  /\ TopCatcherIs(cur, "LABEL")
  /\ SetCur(duk_hthread_catchstack_unwind(Fetch(cur), Len(cur.catchstack) - 1))
  /\ steps' = steps + 1 /\ UNCHANGED <<heap, entry, exec>>

\* DUK_OP_TRYCATCH (catch and/or finally part; no 'with' binding)
TryCatch(has_catch, has_finally) ==
  /\ CanFetch
  /\ Len(cur.catchstack) < MaxCatchstack
  /\ \E b \in 0..(NRegs - 2) :
       /\ has_catch \/ has_finally
       /\ {cur.valstack_bottom + b, cur.valstack_bottom + b + 1} \cap CatchRegs(cur) = {}
       /\ \A b2 \in 0..(b - 1) : {cur.valstack_bottom + b2, cur.valstack_bottom + b2 + 1} \cap CatchRegs(cur) # {}
       /\ LET t1 == Fetch(cur)
              cat == NewCatcher(t1, "TCF", cur.valstack_bottom + b, has_catch, has_finally, 0)
          IN SetCur([t1 EXCEPT !.catchstack = Append(@, cat),
                               !.callstack[Len(t1.callstack)].pc = @ + 2])
  /\ steps' = steps + 1 /\ UNCHANGED <<heap, entry, exec>>

OpTryCatch == \E has_catch \in BOOLEAN, has_finally \in BOOLEAN : TryCatch(has_catch, has_finally)

\* the shared tail of ENDTRY and ENDCATCH: normal completion of the part
\* variant: the finally part stays enabled when the try or catch part ends
EndPart_finally_left_enabled(th) ==
  LET cat == Top(th.catchstack)
      t1 == IF cat.finally_enabled
            THEN SetSlot(SetSlot(th, cat.idx_base, Undef),
                         cat.idx_base + 1, Num(LjTypeNum["NORMAL"]))
            ELSE duk_hthread_catchstack_unwind(th, Len(th.catchstack) - 1)
  IN [t1 EXCEPT !.callstack[Len(t1.callstack)].pc = cat.pc_base + 1]

EndPart(th) ==
  LET cat == Top(th.catchstack)
      t1 == IF cat.finally_enabled
            THEN [SetSlot(SetSlot(th, cat.idx_base, Undef),
                          cat.idx_base + 1, Num(LjTypeNum["NORMAL"]))
                    EXCEPT !.catchstack[Len(th.catchstack)].finally_enabled = FALSE]
            ELSE duk_hthread_catchstack_unwind(th, Len(th.catchstack) - 1)
  IN [t1 EXCEPT !.callstack[Len(t1.callstack)].pc = cat.pc_base + 1]

\* DUK_EXTRAOP_ENDTRY
OpEndTry ==
  /\ CanFetch
  /\ TopCatcherIs(cur, "TCF")
  /\ SetCur(EndPart([Fetch(cur) EXCEPT !.catchstack[Len(cur.catchstack)].catch_enabled = FALSE]))
  /\ steps' = steps + 1 /\ UNCHANGED <<heap, entry, exec>>

\* DUK_EXTRAOP_ENDCATCH
OpEndCatch ==
  /\ CanFetch
  /\ TopCatcherIs(cur, "TCF")
  /\ ~Top(cur.catchstack).catch_enabled
  /\ LET t1 == Fetch(cur)
         t2 == IF DUK_CAT_HAS_LEXENV_ACTIVE(Top(t1.catchstack))
               THEN [PopLexEnv(t1, Len(t1.callstack) - 1)
                       EXCEPT !.catchstack[Len(t1.catchstack)].lexenv_active = FALSE]
               ELSE t1
     IN SetCur(EndPart(t2))
  /\ steps' = steps + 1 /\ UNCHANGED <<heap, entry, exec>>

\* variant: ENDFIN raises the saved kind with the content of the kind slot
\* as its value
OpEndFin_value_from_kind_slot ==
  /\ CanFetch
  /\ TopCatcherIs(cur, "TCF")
  /\ ~Top(cur.catchstack).finally_enabled
  /\ LET cat == Top(cur.catchstack)
         tv1 == cur.valstack[cat.idx_base + 2]
     IN /\ tv1.t = "number"
        /\ IF tv1.n = LjTypeNum["NORMAL"]
           THEN /\ SetCur(duk_hthread_catchstack_unwind(Fetch(cur), Len(cur.catchstack) - 1))
                /\ UNCHANGED <<heap, exec>>
           ELSE /\ SetCur(Fetch(cur))
                /\ heap' = duk_err_setup_heap_ljstate(heap, LjTypeOfNum(tv1.n),
                                                      cur.valstack[cat.idx_base + 2])
                /\ exec' = "longjmp"
  /\ steps' = steps + 1
  /\ UNCHANGED entry

\* DUK_EXTRAOP_ENDFIN
OpEndFin ==
  /\ CanFetch
  /\ TopCatcherIs(cur, "TCF")
  /\ ~Top(cur.catchstack).finally_enabled
  /\ LET cat == Top(cur.catchstack)
         tv1 == cur.valstack[cat.idx_base + 2]
     IN /\ tv1.t = "number"
        /\ IF tv1.n = LjTypeNum["NORMAL"]
           THEN /\ SetCur(duk_hthread_catchstack_unwind(Fetch(cur), Len(cur.catchstack) - 1))
                /\ UNCHANGED <<heap, exec>>
           ELSE /\ SetCur(Fetch(cur))
                /\ heap' = duk_err_setup_heap_ljstate(heap, LjTypeOfNum(tv1.n),
                                                      cur.valstack[cat.idx_base + 1])
                /\ exec' = "longjmp"
  /\ steps' = steps + 1
  /\ UNCHANGED entry

\* base registers a CALL may use: above the catch registers of the activation
CallBaseAll(th) ==
  {idx \in 0..(NRegs - 1) : \A s \in CatchRegs(th) : s < th.valstack_bottom + idx}
CallBase(th) == {idx \in CallBaseAll(th) : \A j \in CallBaseAll(th) : idx <= j}

\* DUK_OP_CALL, Ecmascript-to-Ecmascript call (no arguments, no tailcall)
OpCall ==
  /\ CanFetch
  /\ Len(cur.callstack) < MaxCallstack
  /\ \E idx \in CallBase(cur) :
       SetCur(restart_execution(
                duk_handle_ecma_call_setup(duk_set_top(Fetch(cur), idx + 2), 0, NRegs), heap))
  /\ steps' = steps + 1 /\ UNCHANGED <<heap, entry, exec>>

\* duk_handle_call() of a native function that returns v:
\* [ ... func this arg1 .. argN ] becomes [ ... retval ]
NativeCallReturn(th, num_stack_args, v) ==
  LET idx_func == Len(th.valstack) - num_stack_args - 2
      t1 == [th EXCEPT !.callstack[Len(th.callstack)].idx_retval = idx_func]
  IN [t1 EXCEPT !.valstack = SubSeq(@, 1, idx_func) \o <<v>>]

\* DUK_OP_CALL of a native function that returns (no arguments); the
\* executor restores the value stack top to nregs after the call
OpCallNative ==
  /\ CanFetch
  /\ \E idx \in CallBase(cur), v \in Consts \cup {Undef} :
       SetCur(duk_set_top(NativeCallReturn(duk_set_top(Fetch(cur), idx + 2), 0, v),
                          Top(cur.callstack).nregs))
  /\ steps' = steps + 1 /\ UNCHANGED <<heap, entry, exec>>

\* DUK_OP_CALL of Duktape.Thread.resume(thread, value [, iserror])
\* duk_handle_call() counts the native call in heap->call_recursion_depth
\* while the native function runs; a longjmp out of it leaves the count raised
NativeCallDepth(hp) ==
  IF "call_recursion_depth" \in DOMAIN hp
  THEN [hp EXCEPT !.call_recursion_depth = @ + 1]
  ELSE hp

CallResume(r, v, iserror) ==
  /\ CanFetch
  /\ Len(cur.callstack) < MaxCallstack
  /\ \E idx \in CallBase(cur) :
       /\ r # heap.curr_thread
       /\ threads[r].state \in {"INACTIVE", "YIELDED"}
       /\ threads[r].state = "INACTIVE" =>
            \A r2 \in 1..(r - 1) : threads[r2].state # "INACTIVE"
       /\ SetCur(NativeCallEnter(duk_set_top(Fetch(cur), idx + 4), 2, "resume"))
       /\ heap' = NativeCallDepth([heap EXCEPT !.lj = [type |-> "RESUME", value1 |-> v,
                                                      value2 |-> ThreadObj(r),
                                                      iserror |-> iserror]])
  /\ exec' = "longjmp"
  /\ steps' = steps + 1
  /\ UNCHANGED entry

OpCallResume == \E r \in Threads, v \in Consts, iserror \in BOOLEAN : CallResume(r, v, iserror)

\* DUK_OP_CALL of Duktape.Thread.yield(value [, iserror])
CallYield(idx, v, iserror) ==
  /\ CanFetch
  /\ Len(cur.callstack) < MaxCallstack
  /\ heap.curr_thread # entry.thread
  /\ cur.resumer # 0
  /\ \A i \in 1..Len(cur.callstack) : cur.callstack[i].func = "ecma"
  /\ SetCur(NativeCallEnter(duk_set_top(Fetch(cur), idx + 3), 1, "yield"))
  /\ heap' = NativeCallDepth([heap EXCEPT !.lj = [type |-> "YIELD", value1 |-> v,
                                                 value2 |-> UndefUnused,
                                                 iserror |-> iserror]])
  /\ exec' = "longjmp"
  /\ steps' = steps + 1
  /\ UNCHANGED entry

OpCallYield ==
  \E idx \in CallBase(cur), v \in Consts, iserror \in BOOLEAN : CallYield(idx, v, iserror)

\* the setjmp catchpoint of duk_js_execute_bytecode(): one handler pass
HandleLongjmp ==
  /\ exec = "longjmp"
  /\ \E r \in HandlerOutcomes(threads, heap, entry) :
        /\ threads' = IF r.exec = "run"
                      THEN [r.threads EXCEPT ![r.heap.curr_thread] = restart_execution(@, r.heap)]
                      ELSE r.threads
        /\ heap' = r.heap
        /\ exec' = r.exec
  /\ UNCHANGED <<entry, steps>>

\* ------------------------------------------------------------------- Init
Regs == [i \in 1..NRegs |-> Undef]

InactiveThread ==
  [state |-> "INACTIVE", resumer |-> 0, callstack |-> <<>>, catchstack |-> <<>>,
   valstack |-> <<FuncObj>>, valstack_bottom |-> 0]

\* the executor is entered for the only activation of thread 1
EntryOuter ==
  [state |-> "RUNNING", resumer |-> 0,
   callstack |-> <<[func |-> "ecma", pc |-> 0, idx_bottom |-> 2, idx_retval |-> 0, nregs |-> NRegs]>>,
   catchstack |-> <<>>,
   valstack |-> <<FuncObj, Undef>> \o Regs, valstack_bottom |-> 2]

\* the executor is entered for a function called from inside the try block
\* of an activation run by an outer executor
EntryNested ==
  [state |-> "RUNNING", resumer |-> 0,
   callstack |-> <<[func |-> "ecma", pc |-> 4, idx_bottom |-> 2, idx_retval |-> NRegs + 2, nregs |-> NRegs],
                   [func |-> "ecma", pc |-> 0, idx_bottom |-> NRegs + 4, idx_retval |-> 0, nregs |-> NRegs]>>,
   catchstack |-> <<[type |-> "TCF", callstack_index |-> 0, pc_base |-> 1, idx_base |-> 2,
                     catch_enabled |-> TRUE, finally_enabled |-> TRUE, label |-> 0]>>,
   valstack |-> <<FuncObj, Undef>> \o Regs \o <<FuncObj, Undef>> \o Regs,
   valstack_bottom |-> NRegs + 4]

Init ==
  /\ \E e \in {EntryOuter, EntryNested} :
       /\ threads = [t \in Threads |-> IF t = 1 THEN e ELSE InactiveThread]
       /\ entry = [thread |-> 1, callstack_top |-> Len(e.callstack)]
  /\ heap = [curr_thread |-> 1, lj |-> LjUnknown]
  /\ exec = "run"
  /\ steps = 0

Next ==
  \/ OpJump
  \/ OpLdConst
  \/ OpReturn
  \/ OpThrow
  \/ OpBreak
  \/ OpContinue
  \/ OpLabel
  \/ OpEndLabel
  \/ OpTryCatch
  \/ OpEndTry
  \/ OpEndCatch
  \/ OpEndFin
  \/ OpCall
  \/ OpCallNative
  \/ OpCallResume
  \/ OpCallYield
  \/ HandleLongjmp

Spec == Init /\ [][Next]_vars

\* ------------------------------------------------------- compiled programs
\* the numbers the programs below are run with
Args == {Num(k) : k \in 0..MaxArg}

\* function f() { try { return v1; } finally { return v2; } }  f();
\* the instructions in the order they are dispatched
ReturnFromFinallyNext ==
  \/ steps = 0 /\ OpCall
  \/ steps = 1 /\ TryCatch(FALSE, TRUE)
  \/ steps = 2 /\ \E v1 \in Args : Return(v1)
  \/ steps = 3 /\ \E v2 \in Args : Return(v2)
  \/ HandleLongjmp

SpecReturnFromFinally == Init /\ [][ReturnFromFinallyNext]_vars

\* t = new Duktape.Thread(function (x) { return Duktape.Thread.yield(x + 1); });
\* Duktape.Thread.resume(t, x1);  Duktape.Thread.resume(t, x2);
\* the body keeps x in register 0 and calls yield() at register 1
CoThread == 2
CoroutineNext ==
  \/ steps = 0 /\ \E x1 \in Args : CallResume(CoThread, x1, FALSE)
  \/ steps = 1 /\ Add(3, Reg(0), Num(1))
  \/ steps = 2 /\ CallYield(1, Reg(3), FALSE)
  \/ steps = 3 /\ \E x2 \in Args : CallResume(CoThread, x2, FALSE)
  \/ steps = 4 /\ Return(Reg(1))
  \/ HandleLongjmp

SpecCoroutine == Init /\ [][CoroutineNext]_vars

\* ---------------------------------------------------- calls of any target
\* function values other than a compiled function (FuncObj)
NativeFunc(f) == [t |-> "native", n |-> f]
LightFunc == [t |-> "lightfunc", n |-> 0]
BoundFunc(target) == [t |-> "bound", n |-> target]
duk_bi_global_object_eval == NativeFunc("eval")

\* functions bound k times around f
RECURSIVE BoundChain(_, _)
BoundChain(f, k) == IF k = 0 THEN f ELSE BoundFunc(BoundChain(f, k - 1))
CallTargets ==
  {BoundChain(f, k) : f \in {FuncObj, LightFunc, duk_bi_global_object_eval, NativeFunc("other")},
                      k \in 0..MaxBound}

\* the bound function chain resolution of the call setup: the final,
\* non-bound function
RECURSIVE ResolveBound(_)
ResolveBound(f) == IF f.t = "bound" THEN ResolveBound(f.n) ELSE f

\* the top activation runs bytecode
InBytecode == cur.callstack # <<>> /\ Top(cur.callstack).func = "ecma"

\* DUK_OP_CSVAR: the function found for the call identifier is put in
\* register idx, its 'this' binding (undefined) in idx + 1
CsVar(idx, f) ==
  /\ CanFetch /\ InBytecode
  /\ SetCur(SetSlot(SetSlot(Fetch(cur), cur.valstack_bottom + idx, f),
                    cur.valstack_bottom + idx + 1, Undef))
  /\ steps' = steps + 1 /\ UNCHANGED <<heap, entry, exec>>

\* the call flags of the native-call path: tv_func is DUK__REGP(idx) looked
\* up again after duk_handle_ecma_call_setup()
CallFlags(tv_func, flag_evalcall) ==
  IF tv_func.t = "lightfunc" THEN {}
  ELSE IF tv_func = duk_bi_global_object_eval /\ flag_evalcall
       THEN {"DUK_CALL_FLAG_DIRECT_EVAL"}
       ELSE {}

\* duk_handle_call() has entered the native function with the given flags
NativeCallEnterFlags(th, num_stack_args, call_flags) ==
  LET idx_func == Len(th.valstack) - num_stack_args - 2
      t1 == [th EXCEPT !.callstack[Len(th.callstack)].idx_retval = idx_func]
      act == [func |-> "native", pc |-> 0, idx_bottom |-> idx_func + 2,
              idx_retval |-> 0, nregs |-> 0, flags |-> call_flags]
  IN [t1 EXCEPT !.callstack = Append(@, act), !.valstack_bottom = idx_func + 2]

\* DUK_OP_CALL with base register idx, c arguments and the evalcall flag
Call(idx, c, flag_evalcall) ==
  /\ CanFetch /\ InBytecode
  /\ Len(cur.callstack) < MaxCallstack
  /\ idx + c + 2 <= Top(cur.callstack).nregs
  /\ Reg(idx) \in CallTargets
  /\ LET t1 == duk_set_top(Fetch(cur), idx + c + 2)
         tv_func == ResolveBound(Reg(idx))
         t2 == SetSlot(t1, cur.valstack_bottom + idx, tv_func)
     IN SetCur(IF tv_func = FuncObj
               THEN restart_execution(duk_handle_ecma_call_setup(t2, c, NRegs), heap)
               ELSE NativeCallEnterFlags(t2, c, CallFlags(tv_func, flag_evalcall)))
  /\ steps' = steps + 1 /\ UNCHANGED <<heap, entry, exec>>

\* the native function returns v: duk_handle_call() leaves [ ... retval ],
\* the executor restores the value stack top to nregs
NativeReturn(v) ==
  /\ exec = "run"
  /\ cur.callstack # <<>> /\ Top(cur.callstack).func = "native"
  /\ LET t1 == duk_hthread_callstack_unwind(cur, Len(cur.callstack) - 1)
         act == Top(t1.callstack)
         t2 == [t1 EXCEPT !.valstack = SubSeq(@, 1, act.idx_retval) \o <<v>>,
                          !.valstack_bottom = act.idx_bottom]
     IN SetCur(duk_set_top(t2, act.nregs))
  /\ UNCHANGED <<heap, entry, exec, steps>>

OpCsVar == \E idx \in CallBase(cur), f \in CallTargets : CsVar(idx, f)
OpCallTarget == \E idx \in CallBase(cur), c \in 0..1, flag_evalcall \in BOOLEAN : Call(idx, c, flag_evalcall)
OpNativeReturn == \E v \in Consts \cup {Undef} : NativeReturn(v)

CallNext ==
  \/ OpCsVar
  \/ OpCallTarget
  \/ OpNativeReturn

SpecCall == Init /\ [][CallNext]_vars

\* a build with DUK_USE_INTERRUPT_COUNTER: the executor is at the head of
\* the dispatch loop, the interrupt set up by the last run of the hook is due
InitInterrupt ==
  /\ \E e \in {EntryOuter, EntryNested} :
       /\ threads = [t \in Threads |->
                       IF t = 1 THEN e @@ [interrupt_counter |-> 0] ELSE InactiveThread]
       /\ entry = [thread |-> 1, callstack_top |-> Len(e.callstack)]
  /\ heap = [curr_thread |-> 1, lj |-> LjUnknown,
             interrupt_init |-> DUK_HEAP_INTCTR_DEFAULT,
             interrupt_counter |-> DUK_HEAP_INTCTR_DEFAULT - 1]
  /\ exec = "run"
  /\ steps = 0

\* the instructions of one thread: no resume() and no yield()
InterruptNext ==
  \/ OpJump
  \/ OpLdConst
  \/ OpReturn
  \/ OpBreak
  \/ OpContinue
  \/ OpLabel
  \/ OpEndLabel
  \/ OpCall
  \/ OpCallNative
  \/ HandleLongjmp

SpecInterrupt == InitInterrupt /\ [][InterruptNext]_vars

\* --------------------------------------------------- vocabulary of the claims
\* the handler is about to run for a transfer of one of the given kinds
Handling(types) == exec = "longjmp" /\ heap.lj.type \in types

\* the thread that is current before the step, as it is after the step
curAfter == threads'[heap.curr_thread]

\* C indices of the top activation and of the top catcher of the current thread
TopAct == Len(cur.callstack) - 1
TopCat == Len(cur.catchstack) - 1
Cat(k) == cur.catchstack[k + 1]
CatIdx == 0..TopCat

IsFinally(k) == Cat(k).type = "TCF" /\ Cat(k).finally_enabled
IsLabel(k, l) == Cat(k).type = "LABEL" /\ Cat(k).label = l

\* catchers 0 .. k are as before the step, but for catcher k becoming 'c'
CatchstackCutAt(k, c) ==
  /\ Len(curAfter.catchstack) = k + 1
  /\ curAfter.catchstack[k + 1] = c
  /\ \A j \in 1..k : curAfter.catchstack[j] = cur.catchstack[j]

\* the frame owning catcher k has become the top activation, at program counter pc
OwnerResumedAt(k, pc) ==
  /\ Len(curAfter.callstack) = Cat(k).callstack_index + 1
  /\ Top(curAfter.callstack).pc = pc
  /\ curAfter.valstack_bottom = Top(curAfter.callstack).idx_bottom

\* the handler returned RESTART into the same thread
Restarted == exec' = "run" /\ heap'.curr_thread = heap.curr_thread

\* a finally-enabled TCF catcher k takes the pending transfer:
\*  RETURN: the topmost one among the catchers of the returning frame;
\*  BREAK / CONTINUE: the topmost one in the frame of the top catcher, with no
\*  matching label catcher above it;
\*  THROW: the topmost enabled catcher within the executor's reach, catch part
\*  not enabled.
FinallyTakes(k) ==
  /\ k \in CatIdx
  /\ IsFinally(k)
  /\ \A j \in (k + 1)..TopCat : ~IsFinally(j)
  /\ CASE heap.lj.type = "RETURN" ->
            \A j \in k..TopCat : Cat(j).callstack_index = TopAct
       [] heap.lj.type \in {"BREAK", "CONTINUE"} ->
            /\ \A j \in k..TopCat : Cat(j).callstack_index = Cat(TopCat).callstack_index
            /\ \A j \in (k + 1)..TopCat : ~IsLabel(j, heap.lj.value1.n)
       [] heap.lj.type = "THROW" ->
            /\ \A j \in k..TopCat : ~Cat(j).catch_enabled
            /\ heap.curr_thread = entry.thread =>
                 Cat(k).callstack_index >= entry.callstack_top - 1
       [] OTHER -> FALSE

\* -------------------------------------------------------------------- C1
\* C1: whenever a Return, Throw, Break or Continue is taken by a
\* finally-enabled TCF catcher, the handler stores value1 at
\* valstack[idx_base] and the number of the transfer kind at
\* valstack[idx_base + 1], clears the finally-enabled flag of that catcher
\* only, makes that catcher the top of the catch stack, resumes the owning
\* activation at pc_base + 1 and returns RESTART.
C1_FinallyInterception ==
  [][\A k \in CatIdx :
       (Handling({"RETURN", "THROW", "BREAK", "CONTINUE"}) /\ FinallyTakes(k)) =>
          /\ curAfter.valstack[Cat(k).idx_base + 1] = heap.lj.value1
          /\ curAfter.valstack[Cat(k).idx_base + 2] = Num(LjTypeNum[heap.lj.type])
          /\ CatchstackCutAt(k, [Cat(k) EXCEPT !.finally_enabled = FALSE])
          /\ OwnerResumedAt(k, Cat(k).pc_base + 1)
          /\ Restarted]_vars

\* a finally block entered for a Return: the saved kind is RETURN, the
\* catcher is still on top with its finally part used up
C1_Witness ==
  /\ exec = "run"
  /\ cur.catchstack # <<>>
  /\ LET cat == Top(cur.catchstack)
     IN /\ cat.type = "TCF" /\ ~cat.finally_enabled
        /\ cat.callstack_index = TopAct
        /\ Top(cur.callstack).pc = cat.pc_base + 1
        /\ cur.valstack[cat.idx_base + 2] = Num(LjTypeNum["RETURN"])
        /\ cur.valstack[cat.idx_base + 1] = Str(1)

\* -------------------------------------------------------------------- C2
\* the returning frame owns no finally-enabled TCF catcher
NoFinallyInFrame == \A k \in CatIdx : ~(IsFinally(k) /\ Cat(k).callstack_index = TopAct)
AtEntryLevel == heap.curr_thread = entry.thread /\ Len(cur.callstack) = entry.callstack_top

\* C2: a Return from a frame that is not the entry frame, has a caller in
\* its thread and owns no finally-enabled TCF catcher stores the return value
\* at the caller's idx_retval, pops exactly one activation and exactly the
\* catchers of the returning frame, and restarts with the caller on top.
C2_ReturnToCaller ==
  [][(Handling({"RETURN"}) /\ ~AtEntryLevel /\ Len(cur.callstack) >= 2 /\ NoFinallyInFrame) =>
        /\ curAfter.valstack[cur.callstack[TopAct].idx_retval + 1] = heap.lj.value1
        /\ curAfter.callstack = SubSeq(cur.callstack, 1, TopAct)
        /\ curAfter.catchstack = SelectSeq(cur.catchstack, LAMBDA c : c.callstack_index # TopAct)
        /\ curAfter.valstack_bottom = cur.callstack[TopAct].idx_bottom
        /\ Restarted]_vars

\* a frame called from the entry frame has received a string from its own
\* callee and still owns its catcher
C2_Witness ==
  /\ exec = "run"
  /\ heap.curr_thread = entry.thread
  /\ Len(cur.callstack) = entry.callstack_top + 1
  /\ cur.valstack[Top(cur.callstack).idx_retval + 1] = Str(1)
  /\ cur.catchstack # <<>>
  /\ Top(cur.catchstack).callstack_index = TopAct
  /\ steps >= 4

\* -------------------------------------------------------------------- C3
\* C3: the handler returns FINISHED exactly when a Return is handled with the
\* entry thread current, its call stack at the entry depth and no
\* finally-enabled TCF catcher of the returning frame; the return value is
\* then the top of the entry thread's value stack.
C3_FinishedExactly ==
  [][/\ (exec' = "finished") <=> (Handling({"RETURN"}) /\ AtEntryLevel /\ NoFinallyInFrame)
     /\ (exec' = "finished") =>
          /\ Top(threads'[entry.thread].valstack) = heap.lj.value1
          /\ heap'.curr_thread = entry.thread]_vars

\* the executor has finished with a string result after a call returned
C3_Witness ==
  /\ exec = "finished"
  /\ Top(threads[entry.thread].valstack) = Str(1)
  /\ Len(threads[entry.thread].callstack) = entry.callstack_top
  /\ steps >= 3

\* -------------------------------------------------------------------- C4
\* C4: a Return in a thread other than the entry thread whose call stack
\* holds only the returning frame (no finally intercepting) stores the value
\* at the idx_retval of the activation that called resume() in the resumer,
\* unwinds the resumer's resume() frame, leaves the returning thread
\* TERMINATED without resumer, makes the resumer RUNNING and current, and
\* returns RESTART.
C4_ThreadTerminationByReturn ==
  [][(/\ Handling({"RETURN"})
      /\ heap.curr_thread # entry.thread
      /\ Len(cur.callstack) = 1
      /\ NoFinallyInFrame) =>
        LET t == heap.curr_thread
            r == cur.resumer
            depth == Len(threads[r].callstack)
        IN /\ r # 0
           /\ threads'[r].valstack[threads[r].callstack[depth - 1].idx_retval + 1] = heap.lj.value1
           /\ threads'[r].callstack = SubSeq(threads[r].callstack, 1, depth - 1)
           /\ threads'[r].catchstack = threads[r].catchstack
           /\ threads'[r].state = "RUNNING"
           /\ threads'[t].state = "TERMINATED"
           /\ threads'[t].resumer = 0
           /\ heap'.curr_thread = r
           /\ exec' = "run"]_vars

\* a resumed thread has finished with a string, which the entry thread got
\* as the result of its resume() call
C4_Witness ==
  /\ exec = "run"
  /\ steps = 2
  /\ heap.curr_thread = entry.thread
  /\ cur.state = "RUNNING"
  /\ \E t \in Threads : threads[t].state = "TERMINATED" /\ threads[t].resumer = 0
  /\ Top(cur.callstack).func = "ecma"
  /\ cur.valstack[Top(cur.callstack).idx_retval + 1] = Str(1)

\* -------------------------------------------------------------------- C5
\* the topmost catcher with its catch or finally part enabled, among the
\* catchers the executor may use (in the entry thread: not below its entry frame)
ThrowTaker(k) ==
  /\ k \in CatIdx
  /\ Cat(k).catch_enabled \/ Cat(k).finally_enabled
  /\ \A j \in (k + 1)..TopCat : ~Cat(j).catch_enabled /\ ~Cat(j).finally_enabled
  /\ heap.curr_thread = entry.thread => Cat(k).callstack_index >= entry.callstack_top - 1

\* C5: a Throw is taken by the topmost catcher with catch or finally
\* enabled: as a catch if catch is enabled (pc_base + 0, catch flag cleared),
\* else as a finally (pc_base + 1, finally flag cleared); the call stack is
\* unwound to the catcher's frame and all higher catchers are removed.
C5_ThrowDispatch ==
  [][\A k \in CatIdx :
       (Handling({"THROW"}) /\ ThrowTaker(k)) =>
          /\ IF Cat(k).catch_enabled
             THEN /\ CatchstackCutAt(k, [Cat(k) EXCEPT !.catch_enabled = FALSE])
                  /\ OwnerResumedAt(k, Cat(k).pc_base)
             ELSE /\ CatchstackCutAt(k, [Cat(k) EXCEPT !.finally_enabled = FALSE])
                  /\ OwnerResumedAt(k, Cat(k).pc_base + 1)
          /\ curAfter.callstack = [SubSeq(cur.callstack, 1, Cat(k).callstack_index + 1)
                                     EXCEPT ![Cat(k).callstack_index + 1].pc =
                                              Top(curAfter.callstack).pc]
          /\ Restarted]_vars

\* a string thrown by a callee has been caught by the try/catch/finally of
\* its caller: try, call, load, throw
C5_Witness ==
  /\ exec = "run"
  /\ steps = 4
  /\ cur.catchstack # <<>>
  /\ LET cat == Top(cur.catchstack)
     IN /\ cat.type = "TCF" /\ ~cat.catch_enabled /\ cat.finally_enabled
        /\ cat.callstack_index = TopAct
        /\ Top(cur.callstack).pc = cat.pc_base
        /\ Top(cur.callstack).idx_retval # 0
        /\ cur.valstack[cat.idx_base + 1] = Str(1)
        /\ cur.valstack[cat.idx_base + 2] = Num(LjTypeNum["THROW"])

\* -------------------------------------------------------------------- C6
\* no catcher of the entry frame or of a frame above it is enabled
NoTakerInReach ==
  \A k \in CatIdx :
     Cat(k).callstack_index >= entry.callstack_top - 1 =>
        ~Cat(k).catch_enabled /\ ~Cat(k).finally_enabled

\* C6: a Throw in the entry thread that no catcher of the entry frame or of
\* a higher frame takes makes the handler return RETHROW with the longjmp
\* state intact and with no stack touched: catchers owned by frames below
\* the entry frame never get it.
C6_UncaughtAtEntry ==
  [][(Handling({"THROW"}) /\ heap.curr_thread = entry.thread /\ NoTakerInReach) =>
        /\ exec' = "rethrown"
        /\ heap' = heap
        /\ threads' = threads]_vars

\* a string is rethrown outward past an enabled catcher of the frame below
\* the entry frame
C6_Witness ==
  /\ exec = "rethrown"
  /\ heap.lj.type = "THROW"
  /\ heap.lj.value1 = Str(1)
  /\ cur.catchstack # <<>>
  /\ Cat(0).catch_enabled
  /\ Cat(0).callstack_index < entry.callstack_top - 1
  /\ Len(cur.callstack) > entry.callstack_top

\* -------------------------------------------------------------------- C7
\* C7: a Throw that no catcher of a thread other than the entry thread
\* takes terminates that thread (resumer cleared), makes its resumer RUNNING
\* and current with its stacks as they are, and is handled again as the same
\* Throw there.
C7_UncaughtInCoroutine ==
  [][(/\ Handling({"THROW"})
      /\ heap.curr_thread # entry.thread
      /\ \A k \in CatIdx : ~Cat(k).catch_enabled /\ ~Cat(k).finally_enabled) =>
        LET t == heap.curr_thread
            r == cur.resumer
        IN /\ r # 0
           /\ threads'[t].state = "TERMINATED"
           /\ threads'[t].resumer = 0
           /\ threads'[r] = [threads[r] EXCEPT !.state = "RUNNING"]
           /\ heap'.curr_thread = r
           /\ heap'.lj = heap.lj
           /\ exec' = "longjmp"]_vars

\* a string thrown in a thread that was resumed by a resumed thread: the
\* thrower is terminated and the Throw is pending in its resumer, which is
\* not the entry thread and is still inside its resume() call
C7_Witness ==
  /\ exec = "longjmp"
  /\ heap.lj.type = "THROW"
  /\ heap.lj.value1 = Str(1)
  /\ heap.curr_thread # entry.thread
  /\ cur.state = "RUNNING"
  /\ cur.resumer = entry.thread
  /\ cur.callstack # <<>>
  /\ Top(cur.callstack).func = "resume"
  /\ \E t \in Threads : threads[t].state = "TERMINATED" /\ threads[t].resumer = 0

\* -------------------------------------------------------------------- C8
\* label catcher k is reached by a Break / Continue with label id l: it is
\* the topmost catcher with that label in the frame being scanned and no
\* finally-enabled TCF catcher lies above it
LabelTakes(k, l) ==
  /\ k \in CatIdx
  /\ IsLabel(k, l)
  /\ \A j \in k..TopCat : Cat(j).callstack_index = Cat(TopCat).callstack_index
  /\ \A j \in (k + 1)..TopCat : ~IsFinally(j) /\ ~IsLabel(j, l)

\* C8: a Break / Continue with label id L that reaches a label catcher with
\* label L sets the PC of the top activation to pc_base + 0 (Break) or
\* pc_base + 1 (Continue), removes all catchers above the label catcher,
\* keeps the label catcher, and changes neither the call stack (but for
\* that PC) nor the value stack.
C8_LabelJump ==
  [][\A k \in CatIdx :
       (Handling({"BREAK", "CONTINUE"}) /\ LabelTakes(k, heap.lj.value1.n)) =>
          /\ curAfter.callstack =
               [cur.callstack EXCEPT ![Len(cur.callstack)].pc =
                  Cat(k).pc_base + (IF heap.lj.type = "CONTINUE" THEN 1 ELSE 0)]
          /\ CatchstackCutAt(k, Cat(k))
          /\ curAfter.valstack = cur.valstack
          /\ curAfter.valstack_bottom = cur.valstack_bottom
          /\ Restarted]_vars

\* a Continue has jumped to the second jump slot of its label, whose
\* catcher is the only one left
C8_Witness ==
  /\ exec = "run"
  /\ steps = 3
  /\ Len(cur.catchstack) = 1
  /\ Cat(0).type = "LABEL"
  /\ Cat(0).callstack_index = TopAct
  /\ Top(cur.callstack).pc = Cat(0).pc_base + 1

\* -------------------------------------------------------------------- C9
\* the label catcher a Break / Continue of the top activation is bound to
BoundLabel(k) ==
  /\ k \in CatIdx
  /\ IsLabel(k, heap.lj.value1.n)
  /\ Cat(k).callstack_index = TopAct
  /\ \A j \in (k + 1)..TopCat : ~IsLabel(j, heap.lj.value1.n)

\* the ENDFIN about to run ends a finally block entered for a Break / Continue
SavedKind == cur.valstack[Top(cur.catchstack).idx_base + 2]
SavedLabel == cur.valstack[Top(cur.catchstack).idx_base + 1]

\* C9: a Break / Continue with a finally-enabled TCF catcher of its frame
\* above its label catcher is first taken by the innermost such catcher,
\* whose finally block runs with the kind and the label id saved; ENDFIN of
\* a finally block entered that way raises the same kind with the same
\* label id again; and the handler jumps to a label only when no
\* finally-enabled TCF catcher lies above the label catcher.
C9_BreakThroughFinally ==
  [][/\ \A k \in CatIdx : \A f \in (k + 1)..TopCat :
          (/\ Handling({"BREAK", "CONTINUE"})
           /\ BoundLabel(k)
           /\ IsFinally(f)
           /\ \A j \in (f + 1)..TopCat : ~IsFinally(j)) =>
             /\ CatchstackCutAt(f, [Cat(f) EXCEPT !.finally_enabled = FALSE])
             /\ OwnerResumedAt(f, Cat(f).pc_base + 1)
             /\ curAfter.valstack[Cat(f).idx_base + 1] = heap.lj.value1
             /\ curAfter.valstack[Cat(f).idx_base + 2] = Num(LjTypeNum[heap.lj.type])
             /\ curAfter.catchstack[k + 1] = Cat(k)
             /\ Restarted
     /\ (OpEndFin /\ SavedKind \in {Num(LjTypeNum["BREAK"]), Num(LjTypeNum["CONTINUE"])}) =>
             /\ exec' = "longjmp"
             /\ Num(LjTypeNum[heap'.lj.type]) = SavedKind
             /\ heap'.lj.value1 = SavedLabel
             /\ curAfter.catchstack = cur.catchstack
             /\ Len(curAfter.callstack) = Len(cur.callstack)
     /\ (/\ Handling({"BREAK", "CONTINUE"})
         /\ Restarted
         /\ Top(curAfter.catchstack).type = "LABEL") =>
             \A j \in Len(curAfter.catchstack)..TopCat : ~IsFinally(j)]_vars

\* label, try/finally, break, then ENDFIN of the finally block: the Break
\* has arrived at its label after the finally block, whose catcher is gone
C9_Witness ==
  /\ exec = "run"
  /\ steps = 4
  /\ Len(cur.callstack) = entry.callstack_top
  /\ Len(cur.catchstack) = entry.callstack_top
  /\ Top(cur.catchstack).type = "LABEL"
  /\ Top(cur.catchstack).callstack_index = TopAct
  /\ Top(cur.callstack).pc = Top(cur.catchstack).pc_base
  /\ \E b \in 0..(NRegs - 2) :
       /\ cur.valstack[cur.valstack_bottom + b + 1] = Num(Top(cur.catchstack).label)
       /\ cur.valstack[cur.valstack_bottom + b + 2] = Num(LjTypeNum["BREAK"])

\* ------------------------------------------------------------------- C10
\* C10: a Break / Continue examines only catchers owned by the top
\* activation: the handler never unwinds an activation for it, and the
\* catcher it restarts at (finally or label) is owned by the top activation.
C10_StaysInFrame ==
  [][Handling({"BREAK", "CONTINUE"}) =>
        /\ Len(curAfter.callstack) = Len(cur.callstack)
        /\ exec' = "run" => Top(curAfter.catchstack).callstack_index = TopAct]_vars

\* ------------------------------------------------------------------- C11
\* the top activation owns neither a finally-enabled TCF catcher nor a label
\* catcher with the requested label id
NoCatcherForBreak ==
  \A k \in CatIdx :
     Cat(k).callstack_index = TopAct =>
        ~IsFinally(k) /\ ~IsLabel(k, heap.lj.value1.n)

\* the handler left through convert_to_internal_error
RaisedInternalError ==
  /\ exec' = "error"
  /\ heap'.lj.type = "THROW"
  /\ heap'.lj.value1 = InternalError

\* C11: a Break / Continue for which the current frame owns neither a
\* finally-enabled TCF catcher nor a label catcher with the label id (the
\* catch stack may be empty) ends in an internal error, and so does a
\* transfer of type Normal or of an unknown type.
C11_MissingLabel ==
  [][/\ (Handling({"BREAK", "CONTINUE"}) /\ NoCatcherForBreak) => RaisedInternalError
     /\ Handling({"NORMAL", "UNKNOWN"}) => RaisedInternalError]_vars

\* ------------------------------------------------------------------- C12
\* C12: a Yield without iserror stores value1 at the idx_retval of the
\* activation that called resume() in the resumer, unwinds the resumer's
\* resume() frame, leaves the yielding thread YIELDED without resumer and
\* with its call and catch stacks as they are, makes the resumer RUNNING and
\* current, and returns RESTART.
C12_Yield ==
  [][(Handling({"YIELD"}) /\ ~heap.lj.iserror) =>
        LET t == heap.curr_thread
            r == cur.resumer
            depth == Len(threads[r].callstack)
        IN /\ r # 0
           /\ threads'[r].valstack[threads[r].callstack[depth - 1].idx_retval + 1] = heap.lj.value1
           /\ threads'[r].callstack = SubSeq(threads[r].callstack, 1, depth - 1)
           /\ threads'[r].catchstack = threads[r].catchstack
           /\ threads'[r].state = "RUNNING"
           /\ threads'[t] = [threads[t] EXCEPT !.state = "YIELDED", !.resumer = 0]
           /\ heap'.curr_thread = r
           /\ exec' = "run"]_vars

\* a resumed thread has yielded a string from inside a try block: it is
\* YIELDED inside its yield() call, and the entry thread runs on with the
\* string as the result of resume()
C12_Witness ==
  /\ exec = "run"
  /\ heap.curr_thread = entry.thread
  /\ cur.state = "RUNNING"
  /\ Top(cur.callstack).idx_retval < Len(cur.valstack)
  /\ cur.valstack[Top(cur.callstack).idx_retval + 1] = Str(1)
  /\ \E t \in Threads :
       /\ threads[t].state = "YIELDED"
       /\ threads[t].resumer = 0
       /\ Top(threads[t].callstack).func = "yield"
       /\ threads[t].catchstack # <<>>

\* ------------------------------------------------------------------- C13
\* the thread a pending Resume names
Resumee == threads[heap.lj.value2.n]

\* the resume has switched threads: resumee RUNNING and current with the
\* resuming thread as its resumer, resuming thread RESUMED and else unchanged
SwitchedToResumee ==
  /\ threads'[heap.lj.value2.n].resumer = heap.curr_thread
  /\ threads'[heap.lj.value2.n].state = "RUNNING"
  /\ heap'.curr_thread = heap.lj.value2.n
  /\ threads'[heap.curr_thread] = [cur EXCEPT !.state = "RESUMED"]

\* C13: a Resume without iserror of a YIELDED thread stores value1 at the
\* idx_retval of the activation that called yield() in the resumee, unwinds
\* the resumee's yield() frame, records the resuming thread as its resumer,
\* makes the resumee RUNNING and current and the resuming thread RESUMED, and
\* returns RESTART.
C13_ResumeYielded ==
  [][(Handling({"RESUME"}) /\ ~heap.lj.iserror /\ Resumee.state = "YIELDED") =>
        LET depth == Len(Resumee.callstack)
            after == threads'[heap.lj.value2.n]
        IN /\ after.valstack[Resumee.callstack[depth - 1].idx_retval + 1] = heap.lj.value1
           /\ after.callstack = SubSeq(Resumee.callstack, 1, depth - 1)
           /\ after.catchstack = Resumee.catchstack
           /\ after.valstack_bottom = Top(after.callstack).idx_bottom
           /\ SwitchedToResumee
           /\ exec' = "run"]_vars

\* a thread that yielded is running again after its yield(), whose result is
\* the string of the second resume: resume, yield, resume
C13_Witness ==
  /\ exec = "run"
  /\ steps = 3
  /\ heap.curr_thread # entry.thread
  /\ cur.state = "RUNNING"
  /\ cur.resumer = entry.thread
  /\ threads[entry.thread].state = "RESUMED"
  /\ Len(cur.callstack) = 1
  /\ Top(cur.callstack).func = "ecma"
  /\ cur.valstack[Top(cur.callstack).idx_retval + 1] = Str(1)

\* ------------------------------------------------------------------- C14
\* C14: a Resume without iserror of an INACTIVE thread either sets up the
\* call of the initial function (this = undefined, value1 the only argument,
\* a fresh activation at pc 0), switches to the resumee as in C13 and returns
\* RESTART, or, if the call setup refuses, raises an internal error with
\* every thread state and the current thread as before.
C14_ResumeInactive ==
  [][(Handling({"RESUME"}) /\ ~heap.lj.iserror /\ Resumee.state = "INACTIVE") =>
        LET after == threads'[heap.lj.value2.n]
            idx_func == Len(Resumee.valstack) - 1
        IN \/ /\ exec' = "run"
              /\ Len(after.callstack) = 1
              /\ after.callstack[1].func = "ecma"
              /\ after.callstack[1].pc = 0
              /\ after.callstack[1].idx_bottom = idx_func + 2
              /\ after.valstack_bottom = idx_func + 2
              /\ after.valstack[idx_func + 1] = FuncObj
              /\ after.valstack[idx_func + 2] = Undef
              /\ after.valstack[idx_func + 3] = heap.lj.value1
              /\ \A i \in (idx_func + 4)..Len(after.valstack) : after.valstack[i] = Undef
              /\ after.catchstack = <<>>
              /\ SwitchedToResumee
           \/ /\ RaisedInternalError
              /\ \A th \in Threads : threads'[th].state = threads[th].state
              /\ \A th \in Threads : threads'[th].resumer = threads[th].resumer
              /\ heap'.curr_thread = heap.curr_thread]_vars

\* a thread resumed for the first time runs its initial function with the
\* resume value in its first register
C14_Witness ==
  /\ exec = "run"
  /\ steps = 1
  /\ heap.curr_thread # entry.thread
  /\ cur.state = "RUNNING"
  /\ cur.resumer = entry.thread
  /\ threads[entry.thread].state = "RESUMED"
  /\ Len(cur.callstack) = 1
  /\ Top(cur.callstack).pc = 0
  /\ cur.valstack[cur.valstack_bottom + 1] = Str(1)

\* ------------------------------------------------------------------- C15
\* C15: a Resume with iserror switches to the resumee as in C13, leaves its
\* stacks alone and is handled next as a Throw of the same value there; in a
\* resumee that was INACTIVE (no activation, no catcher) that Throw
\* terminates the resumee and is handled next in the resuming thread, which
\* is inside its resume() call.
C15_ResumeWithError ==
  [][/\ (Handling({"RESUME"}) /\ heap.lj.iserror) =>
          /\ threads'[heap.lj.value2.n] =
               [Resumee EXCEPT !.resumer = heap.curr_thread, !.state = "RUNNING"]
          /\ SwitchedToResumee
          /\ heap'.lj = [heap.lj EXCEPT !.type = "THROW"]
          /\ exec' = "longjmp"
     /\ (Handling({"THROW"}) /\ cur.callstack = <<>>) =>
          /\ cur.resumer # 0
          /\ threads'[heap.curr_thread].state = "TERMINATED"
          /\ threads'[heap.curr_thread].resumer = 0
          /\ threads'[cur.resumer] = [threads[cur.resumer] EXCEPT !.state = "RUNNING"]
          /\ Top(threads[cur.resumer].callstack).func = "resume"
          /\ heap'.curr_thread = cur.resumer
          /\ heap'.lj.type = "THROW"
          /\ heap'.lj.value1 = heap.lj.value1
          /\ exec' = "longjmp"]_vars

\* an error resumed into a thread that never ran has terminated it and is
\* pending as a Throw in the entry thread, at its resume() call
C15_Witness ==
  /\ exec = "longjmp"
  /\ steps = 1
  /\ heap.curr_thread = entry.thread
  /\ heap.lj.type = "THROW"
  /\ heap.lj.value1 = Str(1)
  /\ heap.lj.iserror
  /\ cur.state = "RUNNING"
  /\ Top(cur.callstack).func = "resume"
  /\ \E t \in Threads : threads[t].state = "TERMINATED" /\ threads[t].callstack = <<>>

\* ------------------------------------------------------------------- C16
\* C16: ENDFIN reads the completion kind from valstack[idx_base + 1] of the
\* top catcher; for Normal it removes exactly that catcher and goes on with
\* the next instruction, nothing else changed; otherwise it raises a
\* transfer of the saved kind with the value saved in valstack[idx_base],
\* the catcher left in place.
C16_EndFin ==
  [][OpEndFin =>
       IF SavedKind = Num(LjTypeNum["NORMAL"])
       THEN /\ curAfter.catchstack = SubSeq(cur.catchstack, 1, TopCat)
            /\ curAfter.callstack =
                 [cur.callstack EXCEPT ![Len(cur.callstack)].pc = @ + 1]
            /\ curAfter.valstack = cur.valstack
            /\ heap' = heap
            /\ exec' = "run"
       ELSE /\ exec' = "longjmp"
            /\ LjTypeNum[heap'.lj.type] = SavedKind.n
            /\ heap'.lj.value1 = SavedLabel
            /\ curAfter.catchstack = cur.catchstack
            /\ curAfter.valstack = cur.valstack]_vars

\* try/finally, ENDTRY, ENDFIN in the only activation of the entry thread:
\* the finally block has completed normally and its catcher is gone
C16_Witness ==
  /\ exec = "run"
  /\ steps = 3
  /\ heap.curr_thread = entry.thread
  /\ entry.callstack_top = 1
  /\ Len(cur.callstack) = 1
  /\ cur.catchstack = <<>>
  /\ cur.valstack[cur.valstack_bottom + 1] = Undef
  /\ cur.valstack[cur.valstack_bottom + 2] = Num(LjTypeNum["NORMAL"])

\* --------------------------------------------------------------- C17, C18
\* the value stack slot of the caller that receives the result of the top frame
CallerSlot == cur.callstack[TopAct].idx_retval + 1
\* the value and the kind saved in the catch registers of the top catcher
SavedValue == cur.valstack[Top(cur.catchstack).idx_base + 1]
\* the try block's RETURN and the finally block's RETURN are about to be handled
TryReturnPending == Handling({"RETURN"}) /\ steps = 3
FinallyReturnPending == Handling({"RETURN"}) /\ steps = 4

\* C17: in f() { try { return v1 } finally { return v2 } } the first Return
\* is taken by the finally catcher: f stays the top activation, now at the
\* finally part, and the caller's result slot is untouched; the second
\* Return pops f and gives the caller v2, which is not v1 unless they are
\* equal.
C17_FinallyOverridesReturn ==
  [][/\ TryReturnPending =>
          /\ Restarted
          /\ Len(curAfter.callstack) = Len(cur.callstack)
          /\ Top(curAfter.callstack).pc = Top(cur.catchstack).pc_base + 1
          /\ curAfter.valstack[CallerSlot] = cur.valstack[CallerSlot]
     /\ FinallyReturnPending =>
          /\ Restarted
          /\ curAfter.callstack = SubSeq(cur.callstack, 1, TopAct)
          /\ curAfter.valstack[CallerSlot] = heap.lj.value1
          /\ SavedValue # heap.lj.value1 => curAfter.valstack[CallerSlot] # SavedValue
    ]_vars

\* f has returned and its caller holds 2 as the result of the call
C17_Witness ==
  /\ exec = "run"
  /\ steps = 4
  /\ Len(cur.callstack) = entry.callstack_top
  /\ cur.valstack[Top(cur.callstack).idx_retval + 1] = Num(2)

\* C18 as stated: while the finally block of f runs after the intercepted
\* RETURN v1, the kind its ENDFIN would read is Normal.
C18_EndFinObservesNormal ==
  (exec = "run" /\ steps = 3 /\ TopCatcherIs(cur, "TCF")) =>
     SavedKind = Num(LjTypeNum["NORMAL"])

\* C18 as amended: the RETURN v1 is converted to a finally completion whose
\* saved kind is Return and whose saved value is v1, the catcher staying on
\* top with its finally part used up; the finally block's own RETURN removes
\* that catcher and leaves nothing of the saved value or kind on the value
\* stack above the caller's result.
C18_ReturnCompletionDiscarded ==
  [][/\ TryReturnPending =>
          /\ curAfter.valstack[Top(cur.catchstack).idx_base + 1] = heap.lj.value1
          /\ curAfter.valstack[Top(cur.catchstack).idx_base + 2] = Num(LjTypeNum["RETURN"])
          /\ curAfter.catchstack =
               [cur.catchstack EXCEPT ![Len(cur.catchstack)].finally_enabled = FALSE]
     /\ FinallyReturnPending =>
          /\ SavedKind = Num(LjTypeNum["RETURN"])
          /\ curAfter.catchstack = SubSeq(cur.catchstack, 1, TopCat)
          /\ \A i \in (CallerSlot + 1)..Len(curAfter.valstack) : curAfter.valstack[i] = Undef
    ]_vars

\* the finally block of f runs with the completion 'Return 1' saved
C18_Witness ==
  /\ exec = "run"
  /\ steps = 3
  /\ TopCatcherIs(cur, "TCF")
  /\ ~Top(cur.catchstack).finally_enabled
  /\ SavedKind = Num(LjTypeNum["RETURN"])
  /\ SavedValue = Num(1)

\* ------------------------------------------------------------------- C19
\* the coroutine, its argument x (register 0 of its body) and the slot of
\* the entry thread that receives the result of resume()
Co == threads[CoThread]
CoArg == Co.valstack[Co.callstack[1].idx_bottom + 1]
ResumeResultSlot ==
  LET res == threads[entry.thread]
  IN res.callstack[Len(res.callstack) - 1].idx_retval + 1

\* C19: for the body function(x) { return yield(x + 1) } of an inactive
\* thread: the yield after the first resume gives the resumer x + 1 as the
\* result of resume() and leaves the thread YIELDED; the second resume gives
\* its value to the register holding the result of yield() and makes the
\* thread run; the thread's return of that register gives the resumer that
\* value as the result of the second resume() and terminates the thread.
C19_CoroutineRoundTrip ==
  [][/\ Handling({"YIELD"}) =>
          /\ heap.lj.value1 = Num(CoArg.n + 1)
          /\ exec' = "run" /\ heap'.curr_thread = entry.thread
          /\ threads'[CoThread].state = "YIELDED"
          /\ threads'[entry.thread].state = "RUNNING"
          /\ threads'[entry.thread].valstack[ResumeResultSlot] = Num(CoArg.n + 1)
     /\ (Handling({"RESUME"}) /\ Co.state = "YIELDED") =>
          /\ exec' = "run" /\ heap'.curr_thread = CoThread
          /\ threads'[CoThread].state = "RUNNING"
          /\ threads'[CoThread].valstack[threads'[CoThread].valstack_bottom + 2] = heap.lj.value1
          /\ Len(threads'[CoThread].callstack) = 1
     /\ Handling({"RETURN"}) =>
          /\ heap.curr_thread = CoThread
          /\ heap.lj.value1 = Reg(1)
          /\ exec' = "run" /\ heap'.curr_thread = entry.thread
          /\ threads'[CoThread].state = "TERMINATED"
          /\ threads'[entry.thread].state = "RUNNING"
          /\ threads'[entry.thread].valstack[ResumeResultSlot] = heap.lj.value1
    ]_vars

\* after both resumes: the coroutine is terminated and the entry thread
\* holds 100 as the result of the second resume()
C19_Witness ==
  /\ exec = "run"
  /\ steps = 5
  /\ heap.curr_thread = entry.thread
  /\ threads[CoThread].state = "TERMINATED"
  /\ cur.state = "RUNNING"
  /\ Len(cur.callstack) = entry.callstack_top
  /\ cur.valstack[Top(cur.callstack).idx_retval + 1] = Num(100)

\* ------------------------------------------------------------------- C20
\* C20: whenever the dispatch loop is about to fetch an instruction (at
\* entry, after every RESTART of the handler, after a call setup and after a
\* native call), the value stack of the current thread ends at
\* valstack_bottom + nregs of the top activation and valstack_bottom is that
\* activation's idx_bottom.
C20_RegisterWindow ==
  exec = "run" =>
     /\ cur.callstack # <<>>
     /\ cur.state = "RUNNING"
     /\ Top(cur.callstack).func = "ecma"
     /\ Len(cur.valstack) = cur.valstack_bottom + Top(cur.callstack).nregs
     /\ cur.valstack_bottom = Top(cur.callstack).idx_bottom

\* a coroutine runs again after its yield(), with a catcher of its own,
\* while its resumer waits inside resume() below a frame it called
C20_Witness ==
  /\ exec = "run"
  /\ heap.curr_thread # entry.thread
  /\ cur.catchstack # <<>>
  /\ Top(cur.callstack).idx_retval # 0
  /\ threads[entry.thread].state = "RESUMED"
  /\ Len(cur.valstack) = cur.valstack_bottom + NRegs

\* ------------------------------------------------------------------- C21
\* C21: whenever the dispatch loop is about to execute an instruction and
\* whenever the executor has returned FINISHED, the longjmp state of the
\* heap has type Unknown, iserror = 0 and value1 = value2 = the
\* unused-undefined value.
C21_LongjmpStateWiped ==
  exec \in {"run", "finished"} =>
     /\ heap.lj.type = "UNKNOWN"
     /\ ~heap.lj.iserror
     /\ heap.lj.value1 = UndefUnused
     /\ heap.lj.value2 = UndefUnused

\* a resumed coroutine is about to run: the RESUME that carried a value and
\* the thread object has been wiped
C21_Witness ==
  /\ exec = "run"
  /\ heap.curr_thread # entry.thread
  /\ cur.resumer = entry.thread
  /\ threads[entry.thread].state = "RESUMED"
  /\ cur.valstack[cur.valstack_bottom + 1] = Str(1)
  /\ heap.lj = LjUnknown

\* ------------------------------------------------------------------- C22
\* C22: in every reachable state of every thread, a catcher lower on the
\* catch stack is owned by the same or a lower activation than any catcher
\* above it.
C22_CatchstackMonotone ==
  \A t \in Threads :
    \A i, j \in 1..Len(threads[t].catchstack) :
       i < j => threads[t].catchstack[i].callstack_index
                  <= threads[t].catchstack[j].callstack_index

\* the current thread holds catchers of two different activations
C22_Witness ==
  /\ exec = "run"
  /\ Len(cur.catchstack) >= 2
  /\ cur.catchstack[1].callstack_index < Top(cur.catchstack).callstack_index
  /\ Top(cur.catchstack).callstack_index = Len(cur.callstack) - 1

\* ------------------------------------------------------------------- C23
\* the threads whose state differs after the step
StateChanged == {t \in Threads : threads'[t].state # threads[t].state}
\* thread a goes from one of 'from_a' to 'to_a' and thread b from 'from_b'
\* to RUNNING, nothing else changes state, and b becomes the current thread
SwitchPair(a, from_a, to_a, b, from_b) ==
  /\ a # b
  /\ StateChanged = {a, b}
  /\ threads[a].state \in from_a /\ threads'[a].state = to_a
  /\ threads[b].state \in from_b /\ threads'[b].state = "RUNNING"
  /\ heap'.curr_thread = b

\* C23: a step changes thread states only in the transfer handler and only
\* as one of: Resume (resumee Inactive or Yielded -> Running, resuming thread
\* Running -> Resumed), Yield (current Running -> Yielded, resumer Resumed ->
\* Running), Return or Throw ending the thread (current Running ->
\* Terminated, resumer Resumed -> Running); the thread that becomes Running
\* becomes the current thread.
C23_ThreadStateMachine ==
  [][StateChanged # {} =>
       /\ exec = "longjmp"
       /\ \/ /\ heap.lj.type = "RESUME"
             /\ SwitchPair(heap.curr_thread, {"RUNNING"}, "RESUMED",
                           heap.lj.value2.n, {"INACTIVE", "YIELDED"})
          \/ /\ heap.lj.type = "YIELD"
             /\ SwitchPair(heap.curr_thread, {"RUNNING"}, "YIELDED",
                           cur.resumer, {"RESUMED"})
          \/ /\ heap.lj.type \in {"RETURN", "THROW"}
             /\ SwitchPair(heap.curr_thread, {"RUNNING"}, "TERMINATED",
                           cur.resumer, {"RESUMED"})]_vars

\* one thread has yielded and another has terminated, the entry thread runs
C23_Witness ==
  /\ exec = "run"
  /\ heap.curr_thread = entry.thread
  /\ cur.state = "RUNNING"
  /\ \E a, b \in Threads : threads[a].state = "YIELDED" /\ threads[b].state = "TERMINATED"

\* ------------------------------------------------------------------- C24
\* the hook runs in the next pass through the loop head
InterruptDue == exec = "run" /\ cur.interrupt_counter <= 0

\* C24: the hook has run before the first instruction and set init = n and
\* counter = n - 1; it is invoked again after exactly n instructions, and
\* after every further n, whatever calls, returns, break/continue transfers
\* and restarts lie in between: at the loop head the interrupt is due
\* exactly when the number of instructions executed is a multiple of n.
C24_InterruptCadence ==
  exec = "run" =>
     (InterruptDue <=> steps % heap.interrupt_init = 0)

\* ------------------------------------------------------------------- C25
\* the step is a CALL that ends on the native-call path
NativeCallStep(idx, c, flag_evalcall) ==
  /\ Call(idx, c, flag_evalcall)
  /\ Top(curAfter.callstack).func = "native"

\* C25: a CALL that ends on the native-call path is flagged direct-eval if
\* and only if the call target before the resolution of the bound function
\* chain is the global eval built-in and the instruction carries the
\* evalcall flag; a bound function wrapping eval is never flagged.
C25_DirectEval ==
  [][\A idx \in 0..(NRegs - 1), c \in 0..1, flag_evalcall \in BOOLEAN :
       NativeCallStep(idx, c, flag_evalcall) =>
          ("DUK_CALL_FLAG_DIRECT_EVAL" \in Top(curAfter.callstack).flags
             <=> (Reg(idx) = duk_bi_global_object_eval /\ flag_evalcall))]_vars


\* ------------------------------------------------ value stack overwrites
\* The executor overwrites a register or a catcher scratch slot with a
\* sequence of DUK_TVAL_xxx macros.  The specification below runs these
\* sequences one macro at a time over a reference counted heap, so that a
\* finalizer started by DUK_TVAL_DECREF sees the slot as the macros before
\* it left it.

\* overwrites run in one explored behaviour
MaxOverwrites == 2

Bool(b) == [t |-> "boolean", n |-> IF b THEN 1 ELSE 0]
Null == [t |-> "null", n |-> 0]

DUK_TVAL_IS_HEAP_ALLOCATED(v) == v.t \in {"string", "thread", "function", "error", "object"}

\* values the registers of the explored states hold
RegValues == {Undef, Num(0)} \cup Consts \cup {ThreadObj(k) : k \in 1..2}

HeapValues == {v \in RegValues : DUK_TVAL_IS_HEAP_ALLOCATED(v)}

\* the references to o held by registers, the constants table and heap->lj
RefsTo(o, valstack, lj) ==
  Cardinality({i \in DOMAIN valstack : valstack[i] = o})
    + (IF o \in Consts THEN 1 ELSE 0) + (IF lj.value1 = o THEN 1 ELSE 0)

\* the macro sequences of the overwrite sites, in source order; tv1 is the
\* slot written, tv2 the value written
OverwriteSites_release_first ==
  [LDREG |-> <<"SET_TVAL_tmp", "DECREF", "SET_TVAL", "INCREF_tv1">>,
   STREG |-> <<"SET_TVAL_tmp", "DECREF", "SET_TVAL", "INCREF_tv1">>,
   LDCONST |-> <<"SET_TVAL_tmp", "DECREF", "SET_TVAL", "INCREF_tv2">>,
   LDINT |-> <<"SET_TVAL_tmp", "DECREF", "SET_TVAL">>,
   ARITH |-> <<"SET_TVAL_tmp", "DECREF", "SET_TVAL">>,
   LNOT |-> <<"SET_TVAL_tmp", "DECREF", "SET_TVAL">>,
   CATCH_VALUE |-> <<"SET_TVAL_tmp", "DECREF", "SET_TVAL", "INCREF_tv1">>,
   CATCH_TYPE |-> <<"SET_TVAL_tmp", "DECREF", "SET_TVAL">>,
   YIELD |-> <<"SET_TVAL_tmp", "DECREF", "SET_TVAL", "INCREF_tv1">>,
   RESUME |-> <<"SET_TVAL_tmp", "DECREF", "SET_TVAL", "INCREF_tv1">>,
   RETURN |-> <<"SET_TVAL_tmp", "DECREF", "SET_TVAL", "INCREF_tv1">>,
   LDUNDEF |-> <<"SET_TVAL_tmp", "DECREF", "SET_TVAL">>,
   ENDTRY |-> <<"SET_TVAL_tmp", "DECREF", "SET_TVAL">>,
   ENDCATCH |-> <<"SET_TVAL_tmp", "DECREF", "SET_TVAL">>]

OverwriteSites ==
  [\* LDREG (1737-1750) and the register move of lines 3100-3110
   LDREG |-> <<"SET_TVAL_tmp", "SET_TVAL", "INCREF_tv1", "DECREF">>,
   \* STREG (1752-1765)
   STREG |-> <<"SET_TVAL_tmp", "SET_TVAL", "INCREF_tv1", "DECREF">>,
   \* LDCONST (1767-1780): the incref is made through the constant
   LDCONST |-> <<"SET_TVAL_tmp", "SET_TVAL", "INCREF_tv2", "DECREF">>,
   \* LDINT (1782-1795): a number, no incref
   LDINT |-> <<"SET_TVAL_tmp", "SET_TVAL", "DECREF">>,
   \* arithmetic and bitwise results (76-81, 188-193, 283-288, 348-353, 383-387)
   ARITH |-> <<"SET_TVAL_tmp", "SET_TVAL", "DECREF">>,
   \* duk__vm_logical_not (411-413): a boolean, no incref
   LNOT |-> <<"SET_TVAL_tmp", "SET_TVAL", "DECREF">>,
   \* catch registers: the value (495-499) and the longjmp type (501-505)
   CATCH_VALUE |-> <<"SET_TVAL_tmp", "SET_TVAL", "INCREF_tv1", "DECREF">>,
   CATCH_TYPE |-> <<"SET_TVAL_tmp", "SET_TVAL", "DECREF">>,
   \* duk__handle_yield (655-660), resume value (791-794), return value (998-1003)
   YIELD |-> <<"SET_TVAL_tmp", "SET_TVAL", "INCREF_tv1", "DECREF">>,
   RESUME |-> <<"SET_TVAL_tmp", "SET_TVAL", "INCREF_tv1", "DECREF">>,
   RETURN |-> <<"SET_TVAL_tmp", "SET_TVAL", "INCREF_tv1", "DECREF">>,
   \* LDUNDEF, LDNULL, LDTRUE, LDFALSE (3112-3148)
   LDUNDEF |-> <<"SET_TVAL_tmp", "SET_TVAL", "DECREF">>,
   \* ENDTRY (3394-3405) and ENDCATCH (3446-3461) scratch slots
   ENDTRY |-> <<"SET_TVAL_tmp", "SET_TVAL", "DECREF">>,
   ENDCATCH |-> <<"SET_TVAL_tmp", "SET_TVAL", "DECREF">>]

\* the values a site writes: a register, a constant, heap->lj.value1 or a
\* value without a heap reference
SiteValues(site, valstack, lj) ==
  CASE site \in {"LDREG", "STREG", "RESUME"} -> {valstack[i] : i \in DOMAIN valstack}
    [] site = "LDCONST" -> Consts
    [] site \in {"CATCH_VALUE", "YIELD", "RETURN"} -> {lj.value1}
    [] site \in {"LDINT", "ARITH"} -> {Num(0)}
    [] site = "CATCH_TYPE" -> {Num(LjTypeNum[lj.type])}
    [] site = "ENDTRY" -> {Undef, Num(LjTypeNum.NORMAL)}
    [] site = "ENDCATCH" -> {Undef, Num(LjTypeNum.NORMAL)}
    [] site = "LNOT" -> {Bool(TRUE), Bool(FALSE)}
    [] OTHER -> {Undef, Null, Bool(TRUE), Bool(FALSE)}

\* DUK_TVAL_INCREF
Incref(hp, v) ==
  IF DUK_TVAL_IS_HEAP_ALLOCATED(v) THEN [hp EXCEPT !.refcount[v] = @ + 1] ELSE hp

\* DUK_TVAL_DECREF: the reference count drops, and at zero the finalizer of
\* the value runs (the side effects) and sees the slot being overwritten
Decref(hp, v, slot_value) ==
  IF ~DUK_TVAL_IS_HEAP_ALLOCATED(v) THEN hp
  ELSE IF hp.refcount[v] > 1 THEN [hp EXCEPT !.refcount[v] = @ - 1]
  ELSE [hp EXCEPT !.refcount[v] = 0,
                  !.finalized = Append(@, [value |-> v, slot |-> slot_value])]

InitOverwrite ==
  /\ \E valstack \in [1..NRegs -> {Undef} \cup (HeapValues \ Consts)], v \in {Str(1), ThreadObj(1)} :
       LET lj == [type |-> "THROW", value1 |-> v, value2 |-> UndefUnused, iserror |-> FALSE]
       IN /\ threads = [t \in {1} |-> [valstack |-> valstack, tv_tmp |-> UndefUnused]]
          /\ heap = [curr_thread |-> 1, lj |-> lj,
                     refcount |-> [o \in HeapValues |-> RefsTo(o, valstack, lj)],
                     finalized |-> <<>>]
  /\ entry = [thread |-> 1, callstack_top |-> 1]
  /\ steps = 0
  /\ exec = [site |-> "none", tv1 |-> 0, tv2 |-> UndefUnused, todo |-> <<>>]

\* an opcode or handler reaches one of its overwrites
BeginOverwrite ==
  /\ exec.todo = <<>>
  /\ steps < MaxOverwrites
  /\ \E site \in DOMAIN OverwriteSites, tv1 \in 1..NRegs :
       \E tv2 \in SiteValues(site, threads[1].valstack, heap.lj) :
         exec' = [site |-> site, tv1 |-> tv1, tv2 |-> tv2, todo |-> OverwriteSites[site]]
  /\ steps' = steps + 1
  /\ UNCHANGED <<threads, heap, entry>>

Macro(m) ==
  /\ exec.todo # <<>>
  /\ Head(exec.todo) = m
  /\ exec' = [exec EXCEPT !.todo = Tail(@)]
  /\ UNCHANGED <<entry, steps>>

\* DUK_TVAL_SET_TVAL(&tv_tmp, tv1)
DUK_TVAL_SET_TVAL_tmp ==
  /\ Macro("SET_TVAL_tmp")
  /\ threads' = [threads EXCEPT ![1].tv_tmp = threads[1].valstack[exec.tv1]]
  /\ UNCHANGED heap

\* DUK_TVAL_SET_TVAL(tv1, tv2), DUK_TVAL_SET_NUMBER(tv1, ...) and the like
DUK_TVAL_SET_TVAL ==
  /\ Macro("SET_TVAL")
  /\ threads' = [threads EXCEPT ![1].valstack[exec.tv1] = exec.tv2]
  /\ UNCHANGED heap

\* DUK_TVAL_INCREF(thr, tv1) / DUK_TVAL_INCREF(thr, tv2)
DUK_TVAL_INCREF ==
  /\ \/ Macro("INCREF_tv1") /\ heap' = Incref(heap, threads[1].valstack[exec.tv1])
     \/ Macro("INCREF_tv2") /\ heap' = Incref(heap, exec.tv2)
  /\ UNCHANGED threads

\* DUK_TVAL_DECREF(thr, &tv_tmp)
DUK_TVAL_DECREF ==
  /\ Macro("DECREF")
  /\ heap' = Decref(heap, threads[1].tv_tmp, threads[1].valstack[exec.tv1])
  /\ UNCHANGED threads

OverwriteNext ==
  \/ BeginOverwrite
  \/ DUK_TVAL_SET_TVAL_tmp
  \/ DUK_TVAL_SET_TVAL
  \/ DUK_TVAL_INCREF
  \/ DUK_TVAL_DECREF

SpecOverwrite == InitOverwrite /\ [][OverwriteNext]_vars

\* C26: in every overwrite of a register or catcher scratch slot the old
\* value is released last, after the new value is installed and acquired:
\* whenever the release of a value runs its finalizer, the finalizer does
\* not see the slot holding the released value, and no reference count is
\* ever below the number of references held.
C26_MutationDiscipline ==
  /\ \A k \in DOMAIN heap.finalized : heap.finalized[k].slot # heap.finalized[k].value
  /\ exec.todo = <<>> =>
       \A o \in HeapValues : heap.refcount[o] = RefsTo(o, threads[1].valstack, heap.lj)

\* a finalizer ran for the old value of a slot that received a heap value
C26_Witness ==
  /\ heap.finalized # <<>>
  /\ exec.todo = <<>>
  /\ exec.site \in {"LDREG", "CATCH_VALUE", "RETURN"}
  /\ DUK_TVAL_IS_HEAP_ALLOCATED(exec.tv2)


\* ------------------------------------------------ catch binding environments
\* One thread whose activations carry lex_env / var_env and whose TRYCATCH
\* instructions may ask for a catch binding.

\* the entry activation has its environments built already, or not yet
InitCatchBinding ==
  /\ \E built \in BOOLEAN :
       LET e == IF built THEN 1 ELSE 0
           envs == IF built THEN <<[outer |-> 0, varname |-> UndefUnused, value |-> UndefUnused]>>
                   ELSE <<>>
           th == [EntryOuter EXCEPT !.callstack[1] = @ @@ [lex_env |-> e, var_env |-> e]]
       IN threads = [t \in Threads |-> IF t = 1 THEN th @@ [envs |-> envs] ELSE InactiveThread]
  /\ entry = [thread |-> 1, callstack_top |-> 1]
  /\ heap = [curr_thread |-> 1, lj |-> LjUnknown]
  /\ exec = "run"
  /\ steps = 0

\* TRYCATCH with DUK_BC_TRYCATCH_FLAG_HAVE_CATCH, and with or without
\* DUK_BC_TRYCATCH_FLAG_CATCH_BINDING: C names the catch variable
TryCatchBinding(has_finally, catch_binding, c) ==
  /\ CanFetch
  /\ Len(cur.catchstack) < MaxCatchstack
  /\ \E b \in 0..(NRegs - 2) :
       /\ {cur.valstack_bottom + b, cur.valstack_bottom + b + 1} \cap CatchRegs(cur) = {}
       /\ \A b2 \in 0..(b - 1) : {cur.valstack_bottom + b2, cur.valstack_bottom + b2 + 1} \cap CatchRegs(cur) # {}
       /\ LET t1 == Fetch(cur)
              cat == NewCatcher(t1, "TCF", cur.valstack_bottom + b, TRUE, has_finally, 0)
                       @@ [catch_binding_enabled |-> catch_binding, lexenv_active |-> FALSE,
                           h_varname |-> IF catch_binding THEN Str(c) ELSE UndefUnused]
          IN SetCur([t1 EXCEPT !.catchstack = Append(@, cat),
                               !.callstack[Len(t1.callstack)].pc = @ + 2])
  /\ steps' = steps + 1 /\ UNCHANGED <<heap, entry, exec>>

OpTryCatchBinding ==
  \E has_finally \in BOOLEAN, catch_binding \in BOOLEAN, c \in 1..MaxConst :
    TryCatchBinding(has_finally, catch_binding, c)

CatchBindingNext ==
  \/ OpTryCatchBinding
  \/ OpLdConst
  \/ OpThrow
  \/ OpEndTry
  \/ OpEndCatch
  \/ OpEndFin
  \/ OpCall
  \/ OpReturn
  \/ HandleLongjmp

SpecCatchBinding == InitCatchBinding /\ [][CatchBindingNext]_vars

\* the environment reached from e by n steps outwards
RECURSIVE OuterN(_, _, _)
OuterN(envs, e, n) == IF n = 0 \/ e = 0 THEN e ELSE OuterN(envs, envs[e].outer, n - 1)

\* catchers above C index k, owned by activation act_idx, whose environment is active
ActiveAbove(th, k, act_idx) ==
  {j \in (k + 2)..Len(th.catchstack) :
     /\ th.catchstack[j].callstack_index = act_idx
     /\ DUK_CAT_HAS_LEXENV_ACTIVE(th.catchstack[j])}

\* the handler takes the pending Throw as the catch of catcher k, which has
\* a catch binding
ThrowCaughtWithBinding(k) ==
  /\ exec = "longjmp" /\ heap.lj.type = "THROW" /\ exec' = "run"
  /\ k + 1 \in DOMAIN threads[1].catchstack
  /\ threads[1].catchstack[k + 1].type = "TCF"
  /\ threads[1].catchstack[k + 1].catch_enabled
  /\ DUK_CAT_HAS_CATCH_BINDING_ENABLED(threads[1].catchstack[k + 1])
  /\ Len(threads'[1].catchstack) = k + 1
  /\ ~threads'[1].catchstack[k + 1].catch_enabled

\* what the catch binding leaves: a fresh environment on top of the one
\* current in the try part, holding the thrown value under the catch variable
BindingMade(k) ==
  LET th == threads[1]
      cat == th.catchstack[k + 1]
      a == cat.callstack_index
      prev == OuterN(th.envs, th.callstack[a + 1].lex_env, Cardinality(ActiveAbove(th, k, a)))
      act == threads'[1].callstack[a + 1]
      envs == threads'[1].envs
      new_env == act.lex_env
  IN /\ Len(threads'[1].callstack) = a + 1
     /\ new_env \in DOMAIN envs /\ new_env \notin DOMAIN th.envs
     /\ IF prev # 0 THEN envs[new_env].outer = prev
        ELSE /\ envs[new_env].outer = act.var_env
             /\ act.var_env \in DOMAIN envs /\ act.var_env \notin DOMAIN th.envs
             /\ act.var_env # new_env
     /\ envs[new_env].varname = cat.h_varname
     /\ envs[new_env].value = heap.lj.value1
     /\ threads'[1].catchstack[k + 1].lexenv_active
     /\ \A e \in DOMAIN th.envs : envs[e] = th.envs[e]

\* ENDCATCH of a catch part whose environment is active pops exactly that
\* environment and clears the flag
EndCatchPops ==
  LET th == threads[1]
      n == Len(th.catchstack)
      a == Len(th.callstack)
  IN (OpEndCatch /\ DUK_CAT_HAS_LEXENV_ACTIVE(Top(th.catchstack))) =>
       /\ threads'[1].callstack[a].lex_env = th.envs[th.callstack[a].lex_env].outer
       /\ threads'[1].envs = th.envs
       /\ \/ Len(threads'[1].catchstack) = n - 1
          \/ /\ Len(threads'[1].catchstack) = n
             /\ ~threads'[1].catchstack[n].lexenv_active

\* the environments of an activation are stacked like its catchers: going
\* outwards once per catcher with an active environment leads from lex_env
\* to the environment of the function, so the environment on top is the one
\* made when the innermost such catcher took its catch
EnvsStacked ==
  exec = "run" =>
    \A a \in DOMAIN threads[1].callstack :
      LET th == threads[1]
          act == th.callstack[a]
          n == Cardinality(ActiveAbove(th, -1, a - 1))
      IN /\ act.lex_env = 0 => n = 0 /\ act.var_env = 0
         /\ act.lex_env # 0 =>
              /\ act.var_env # 0
              /\ OuterN(th.envs, act.lex_env, n) = act.var_env
              /\ \A m \in 0..(n - 1) : OuterN(th.envs, act.lex_env, m) # act.var_env

\* C27: a Throw taken as a catch by a catcher with a catch binding makes the
\* lexical environment of the activation a new declarative environment whose
\* outer is the environment current before (built first when the activation
\* had none yet), binding the catch variable to the thrown value, and sets
\* lexenv_active; ENDCATCH then makes the lexical environment that outer
\* environment again and clears lexenv_active.
C27_CatchBindingRoundTrip ==
  /\ [][(\A k \in 0..(MaxCatchstack - 1) : ThrowCaughtWithBinding(k) => BindingMade(k))
          /\ EndCatchPops]_vars
  /\ []EnvsStacked

\* a catch part with a binding was entered and left through ENDCATCH towards
\* its finally part: the environment made for it is no longer current and
\* the activation is back at the environment of the function
C27_Witness ==
  /\ exec = "run"
  /\ Len(threads[1].callstack) = 1
  /\ Len(threads[1].catchstack) = 1
  /\ LET cat == threads[1].catchstack[1]
         envs == threads[1].envs
     IN /\ DUK_CAT_HAS_CATCH_BINDING_ENABLED(cat)
        /\ ~cat.lexenv_active /\ ~cat.catch_enabled /\ ~cat.finally_enabled
        /\ threads[1].valstack[cat.idx_base + 2] = Num(LjTypeNum["NORMAL"])
        /\ Len(envs) >= 2
        /\ envs[Len(envs)].varname = cat.h_varname
        /\ envs[Len(envs)].outer = threads[1].callstack[1].lex_env
        /\ threads[1].callstack[1].lex_env = threads[1].callstack[1].var_env


\* ------------------------------------------------------- indirect opcodes
\* The opcodes with an I suffix take the base of their register range from
\* a register.  Build with DUK_USE_EXEC_INDIRECT_BOUND_CHECK.  The thread
\* record carries "access": the registers (relative to valstack_bottom) the
\* last opcode read or wrote through its base index.

\* largest operand count of the explored indirect opcodes
MaxCount == 1

IndirectOps ==
  {"MPUTOBJI", "MPUTARRI", "NEWI", "CSREGI", "CSVARI", "CSPROPI", "CALLI", "INITSETI", "INITGETI"}

DUK_TVAL_IS_NUMBER(v) == v.t = "number"
DUK_TVAL_IS_OBJECT(v) == v.t \in {"function", "thread", "error", "object", "enumerator"}

duk_get_top(th) == Len(th.valstack) - th.valstack_bottom

\* DUK__REGP(i)
RegP(th, i) == th.valstack[th.valstack_bottom + i + 1]

duk_push_tval(th, v) == [th EXCEPT !.valstack = Append(@, v)]

\* duk_replace(): the value on top goes to to_idx and is popped
duk_replace(th, to_idx) ==
  LET v == th.valstack[Len(th.valstack)]
      t1 == [th EXCEPT !.valstack[th.valstack_bottom + to_idx + 1] = v]
  IN [t1 EXCEPT !.valstack = SubSeq(@, 1, Len(@) - 1)]

\* DUK__INTERNAL_ERROR(): nothing of the opcode is kept
IndirectError(th, access) == [th |-> th, err |-> TRUE, value |-> InternalError, access |-> access]
IndirectDone(th, access) == [th |-> th, err |-> FALSE, value |-> Undef, access |-> access]

\* the TypeError of a call to a value that is not callable
TypeError == [t |-> "error", n |-> 1]

\* MPUTOBJI: A object register, idx first register of c key / value pairs
MPUTOBJI(th, a, idx, c) ==
  IF ~DUK_TVAL_IS_OBJECT(RegP(th, a)) THEN IndirectError(th, {})
  ELSE IF idx + c * 2 > duk_get_top(th) THEN IndirectError(th, {})
  ELSE IF \E j \in 0..(c - 1) : RegP(th, idx + 2 * j).t # "string"
       THEN IndirectError(th, idx..(idx + 2 * c - 1))
       ELSE IndirectDone(th, idx..(idx + 2 * c - 1))

\* MPUTARRI: A object register, idx the start index register, c values after it
MPUTARRI(th, a, idx, c) ==
  IF ~DUK_TVAL_IS_OBJECT(RegP(th, a)) THEN IndirectError(th, {})
  ELSE IF idx + c + 1 > duk_get_top(th) THEN IndirectError(th, {})
  ELSE IF ~DUK_TVAL_IS_NUMBER(RegP(th, idx)) THEN IndirectError(th, {idx})
  ELSE IndirectDone(th, idx..(idx + c))

\* NEWI: constructor at idx, c arguments after it, the result replaces idx
NEWI(th, idx, c) ==
  IF idx + c + 1 > duk_get_top(th) THEN IndirectError(th, {})
  ELSE IndirectDone(duk_replace(duk_push_tval(th, FuncObj), idx), idx..(idx + c))

\* CSREGI: register b goes to idx, undefined ('this') to idx + 1
CSREGI(th, idx, b) ==
  IF idx + 2 > duk_get_top(th) THEN IndirectError(th, {})
  ELSE LET t1 == duk_replace(duk_push_tval(th, RegP(th, b)), idx)
       IN IndirectDone(duk_replace(duk_push_tval(t1, Undef), idx + 1), {idx, idx + 1})

\* CSVARI: duk_js_getvar_activation() has pushed [val this] when the base
\* index is read and checked
CSVARI(th, a, f) ==
  LET t1 == duk_push_tval(duk_push_tval(th, f), Undef)
      tv_ind == RegP(t1, a)
      idx == tv_ind.n
  IN IF ~DUK_TVAL_IS_NUMBER(tv_ind) THEN IndirectError(th, {})
     ELSE IF idx + 2 > duk_get_top(t1) THEN IndirectError(th, {})
     ELSE IndirectDone(duk_replace(duk_replace(t1, idx + 1), idx), {idx, idx + 1})

\* CSPROPI: duk_hobject_getprop() has pushed [val] when the base index is
\* read and checked; then the object register b is pushed as 'this'
CSPROPI(th, a, b, val) ==
  LET t1 == duk_push_tval(th, val)
      tv_ind == RegP(t1, a)
      idx == tv_ind.n
  IN IF ~DUK_TVAL_IS_NUMBER(tv_ind) THEN IndirectError(th, {})
     ELSE IF idx + 2 > duk_get_top(t1) THEN IndirectError(th, {})
     ELSE IndirectDone(duk_replace(duk_replace(duk_push_tval(t1, RegP(t1, b)), idx + 1), idx),
                       {idx, idx + 1})

\* CALLI: function at idx, 'this' at idx + 1, c arguments after it; only
\* idx itself is checked (duk_is_valid_index), then the top is set past the
\* last argument and the call is set up
CALLI(th, idx, c) ==
  IF ~(idx < duk_get_top(th)) THEN IndirectError(th, {})
  ELSE IF RegP(th, idx) # FuncObj
       THEN [th |-> th, err |-> TRUE, value |-> TypeError, access |-> idx..(idx + c + 1)]
       ELSE IndirectDone(duk_handle_ecma_call_setup(duk_set_top(th, idx + c + 2), c, NRegs),
                         idx..(idx + c + 1))

\* INITSETI / INITGETI: key at idx, closure at idx + 1
INITSETI(th, b, idx) ==
  IF idx + 2 > duk_get_top(th) THEN IndirectError(th, {})
  ELSE IndirectDone(th, {idx, idx + 1})

\* the opcode op with indirection register r, count c and other register x
IndirectResult(th, op, r, c, x) ==
  LET tv_ind == RegP(th, r)
      idx == tv_ind.n
  IN CASE op = "CSVARI" -> CSVARI(th, r, FuncObj)
       [] op = "CSPROPI" -> CSPROPI(th, r, x, Str(1))
       [] OTHER ->
            IF ~DUK_TVAL_IS_NUMBER(tv_ind) THEN IndirectError(th, {})
            ELSE CASE op = "MPUTOBJI" -> MPUTOBJI(th, x, idx, c)
                   [] op = "MPUTARRI" -> MPUTARRI(th, x, idx, c)
                   [] op = "NEWI" -> NEWI(th, idx, c)
                   [] op = "CSREGI" -> CSREGI(th, idx, x)
                   [] op = "CALLI" -> CALLI(th, idx, c)
                   [] OTHER -> INITSETI(th, x, idx)

\* registers after the base the opcode uses
Span(op, c) ==
  CASE op = "MPUTOBJI" -> c * 2
    [] op \in {"MPUTARRI", "NEWI"} -> c + 1
    [] op = "CALLI" -> c + 2
    [] OTHER -> 2

Indirect(op, r, c, x) ==
  /\ CanFetch
  /\ op = "CALLI" => Len(cur.callstack) < MaxCallstack
  /\ LET res == IndirectResult(Fetch(cur), op, r, c, x)
     IN /\ SetCur([res.th EXCEPT !.access = res.access])
        /\ IF res.err
           THEN /\ heap' = duk_err_setup_heap_ljstate(heap, "THROW", res.value)
                /\ exec' = "longjmp"
           ELSE UNCHANGED <<heap, exec>>
  /\ steps' = steps + 1
  /\ UNCHANGED entry

OpIndirect ==
  \E op \in IndirectOps, r \in 0..(NRegs - 1), c \in 0..MaxCount, x \in {NRegs - 1} :
    Indirect(op, r, c, x)

\* register 0 holds a candidate base index or a string, the last register
\* an object, the others a string and a number
InitIndirect ==
  /\ \E v \in {Num(k) : k \in 0..(NRegs + 1)} \cup {Str(1)} :
       LET regs == [i \in 1..NRegs |->
                      IF i = 1 THEN v ELSE IF i = NRegs THEN FuncObj
                      ELSE IF i = 2 THEN Str(1) ELSE Num(i - 1)]
           th == [EntryOuter EXCEPT !.valstack = <<FuncObj, Undef>> \o regs]
       IN threads = [t \in Threads |-> IF t = 1 THEN th @@ [access |-> {}] ELSE InactiveThread]
  /\ entry = [thread |-> 1, callstack_top |-> 1]
  /\ heap = [curr_thread |-> 1, lj |-> LjUnknown]
  /\ exec = "run"
  /\ steps = 0

IndirectNext ==
  \/ OpIndirect
  \/ OpLdConst
  \/ HandleLongjmp

SpecIndirect == InitIndirect /\ [][IndirectNext]_vars

\* C28: an indirect opcode whose base register holds no number, or whose
\* register range (base index plus the registers its count asks for) is not
\* inside the register window, raises an InternalError and touches no
\* register outside the window.
C28_IndirectChecked ==
  [][\A op \in IndirectOps, r \in 0..(NRegs - 1), c \in 0..MaxCount :
       LET tv_ind == RegP(cur, r)
           nregs == Top(cur.callstack).nregs
       IN (/\ Indirect(op, r, c, NRegs - 1)
           /\ \/ ~DUK_TVAL_IS_NUMBER(tv_ind)
              \/ tv_ind.n + Span(op, c) > nregs)
          => /\ exec' = "longjmp"
             /\ heap'.lj.type = "THROW" /\ heap'.lj.value1 = InternalError
             /\ threads'[1].access \subseteq 0..(nregs - 1)]_vars


\* ---------------------------------------------------------- enumeration
\* INITENUM / NEXTENUM of the for-in loop.  The thread record carries
\* "enums": enumerator e is th.enums[e], its keys and the index of the next
\* key to give out.

\* most keys of an enumerated object
MaxKeys == 2

\* an object with n enumerable keys, and the enumerator object e
Obj(n) == [t |-> "object", n |-> n]
Enum(e) == [t |-> "enumerator", n |-> e]

\* the keys duk_hobject_enumerator_create() collects from ToObject(v): the
\* keys of an object, the index of a one character string, none for the
\* other primitive values
EnumKeys(v) ==
  CASE v.t = "object" -> [i \in 1..v.n |-> Str(i)]
    [] v.t = "string" -> <<Str(0)>>
    [] OTHER -> <<>>

duk_is_null_or_undefined(v) == v = Null \/ v = Undef

\* INITENUM: B register for the enumerator, C register of the value
INITENUM(th, b, c) ==
  IF duk_is_null_or_undefined(RegP(th, c))
  THEN duk_replace(duk_push_tval(th, Null), b)
  ELSE LET e == Len(th.enums) + 1
           t1 == [th EXCEPT !.enums = Append(@, [keys |-> EnumKeys(RegP(th, c)), next |-> 1])]
       IN duk_replace(duk_push_tval(t1, Enum(e)), b)

\* variant: the instruction after NEXTENUM is never skipped
NEXTENUM_no_skip(th, b, c) ==
  LET tv == RegP(th, c)
  IN IF DUK_TVAL_IS_OBJECT(tv)
     THEN LET en == th.enums[tv.n]
          IN IF en.next <= Len(en.keys)
             THEN duk_replace(duk_push_tval([th EXCEPT !.enums[tv.n].next = @ + 1],
                                            en.keys[en.next]), b)
             ELSE duk_replace(duk_push_tval(th, Undef), b)
     ELSE th

\* NEXTENUM: B target register for the next key, C enumerator register
NEXTENUM(th, b, c) ==
  LET tv == RegP(th, c)
  IN IF DUK_TVAL_IS_OBJECT(tv)
     THEN LET en == th.enums[tv.n]
          IN IF en.next <= Len(en.keys)
             THEN duk_replace(duk_push_tval(
                    [th EXCEPT !.enums[tv.n].next = @ + 1,
                               !.callstack[Len(th.callstack)].pc = @ + 1],
                    en.keys[en.next]), b)
             ELSE duk_replace(duk_push_tval(th, Undef), b)
     ELSE th

InitEnum(b, c) ==
  /\ CanFetch
  /\ Len(cur.enums) < MaxKeys
  /\ SetCur(INITENUM(Fetch(cur), b, c))
  /\ steps' = steps + 1 /\ UNCHANGED <<heap, entry, exec>>

\* the compiler emits NEXTENUM on the register its INITENUM wrote: the
\* register holds an enumerator or null
NextEnum(b, c) ==
  /\ CanFetch
  /\ RegP(cur, c).t = "enumerator" \/ RegP(cur, c) = Null
  /\ SetCur(NEXTENUM(Fetch(cur), b, c))
  /\ steps' = steps + 1 /\ UNCHANGED <<heap, entry, exec>>

OpInitEnum == \E b \in 0..(NRegs - 1), c \in 0..(NRegs - 1) : InitEnum(b, c)

OpNextEnum == \E b \in 0..(NRegs - 1), c \in 0..(NRegs - 1) : NextEnum(b, c)

\* the last register holds the value to enumerate
InitEnumeration ==
  /\ \E v \in {Null, Undef, Num(0)} \cup {Obj(n) : n \in 0..MaxKeys} :
       LET th == [EntryOuter EXCEPT !.valstack[Len(EntryOuter.valstack)] = v]
       IN threads = [t \in Threads |-> IF t = 1 THEN th @@ [enums |-> <<>>] ELSE InactiveThread]
  /\ entry = [thread |-> 1, callstack_top |-> 1]
  /\ heap = [curr_thread |-> 1, lj |-> LjUnknown]
  /\ exec = "run"
  /\ steps = 0

EnumerationNext ==
  \/ OpInitEnum
  \/ OpNextEnum
  \/ OpJump

SpecEnumeration == InitEnumeration /\ [][EnumerationNext]_vars

CurPc == Top(cur.callstack).pc

\* C29: INITENUM of null or undefined stores null as the enumerator;
\* NEXTENUM on a null enumerator goes on with the following instruction and
\* leaves the target register as it was; NEXTENUM on an enumerator object
\* with keys left stores the next key and skips the following instruction,
\* and on an exhausted one stores undefined and goes on with the following
\* instruction.
C29_EnumeratorProtocol ==
  [][\A b \in 0..(NRegs - 1), c \in 0..(NRegs - 1) :
       LET tv == RegP(cur, c)
           pc1 == Top(threads'[1].callstack).pc
           tgt == threads'[1].valstack[cur.valstack_bottom + b + 1]
       IN /\ (InitEnum(b, c) /\ duk_is_null_or_undefined(tv)) => tgt = Null
          /\ (NextEnum(b, c) /\ tv = Null) => (pc1 = CurPc + 1 /\ tgt = RegP(cur, b))
          /\ (NextEnum(b, c) /\ tv.t = "enumerator") =>
               LET en == cur.enums[tv.n]
               IN IF en.next <= Len(en.keys)
                  THEN pc1 = CurPc + 2 /\ tgt = en.keys[en.next]
                  ELSE pc1 = CurPc + 1 /\ tgt = Undef]_vars

\* an enumerator over MaxKeys keys gave them all out, each key skipping one
\* instruction, and was then found exhausted: the target register, which
\* held the keys, is undefined again
C29_Witness ==
  /\ exec = "run"
  /\ Len(threads[1].enums) = 1
  /\ Len(threads[1].enums[1].keys) = MaxKeys
  /\ threads[1].enums[1].next = MaxKeys + 1
  /\ steps = MaxKeys + 2
  /\ Top(threads[1].callstack).pc = steps + MaxKeys
  /\ RegP(threads[1], 1) = Enum(1)
  /\ RegP(threads[1], NRegs - 1) = Obj(MaxKeys)
  /\ \A i \in 0..(NRegs - 2) : i # 1 => RegP(threads[1], i) = Undef


\* ----------------------------------------------------------- logical not
\* the empty string, and a buffer of len bytes
EmptyString == [t |-> "string", n |-> -1]
Buffer(len) == [t |-> "buffer", n |-> len]

\* the tagged values LNOT is applied to (NaN is left out: numbers are
\* integers here)
TaggedValues ==
  {Undef, Null, Bool(TRUE), Bool(FALSE), Num(0), Num(1), Num(-1), EmptyString, Str(1),
   Obj(0), FuncObj, Buffer(0), Buffer(1)}

\* duk_js_toboolean(): E5 Section 9.2, a buffer is true when it is not empty
duk_js_toboolean(tv) ==
  CASE tv.t \in {"undefined", "unused", "null"} -> FALSE
    [] tv.t = "boolean" -> tv.n = 1
    [] tv.t = "number" -> tv.n # 0
    [] tv.t = "string" -> tv # EmptyString
    [] tv.t = "buffer" -> tv.n > 0
    [] OTHER -> TRUE

\* variant: the result has its low bit set instead of flipped
duk__vm_logical_not_set_bit(th, tv_x, idx_z) ==
  SetSlot(th, th.valstack_bottom + idx_z, Bool(TRUE))

\* duk__vm_logical_not(): res = duk_js_toboolean(tv_x); res ^= 1; the
\* boolean goes to register idx_z
duk__vm_logical_not(th, tv_x, idx_z) ==
  LET res == duk_js_toboolean(tv_x)
  IN SetSlot(th, th.valstack_bottom + idx_z, Bool(~res))

\* LNOT: A target register, B register or constant
LNot(a, tv_x) ==
  /\ CanFetch
  /\ SetCur(duk__vm_logical_not(Fetch(cur), tv_x, a))
  /\ steps' = steps + 1 /\ UNCHANGED <<heap, entry, exec>>

OpLNot ==
  \E a \in 1..(NRegs - 1), tv_x \in {Reg(b) : b \in 0..(NRegs - 1)} \cup Consts : LNot(a, tv_x)

\* register 0 holds the operand
InitLogicalNot ==
  /\ \E x \in TaggedValues :
       LET th == [EntryOuter EXCEPT !.valstack[EntryOuter.valstack_bottom + 1] = x]
       IN threads = [t \in Threads |-> IF t = 1 THEN th ELSE InactiveThread]
  /\ entry = [thread |-> 1, callstack_top |-> 1]
  /\ heap = [curr_thread |-> 1, lj |-> LjUnknown]
  /\ exec = "run"
  /\ steps = 0

LogicalNotNext ==
  \/ OpLNot
  \/ OpLdConst

SpecLogicalNot == InitLogicalNot /\ [][LogicalNotNext]_vars

\* the value LNOT leaves in register 0 when applied to x and then to its
\* own result
LNotTwice(x) ==
  LET t1 == duk__vm_logical_not(cur, x, 0)
  IN RegP(duk__vm_logical_not(t1, RegP(t1, 0), 0), 0)

\* C30 as stated: for every tagged value x, LNOT(LNOT(x)) = x.
C30_LNotInvolutive ==
  exec = "run" => \A i \in 0..(NRegs - 1) : LNotTwice(Reg(i)) = Reg(i)

\* C30 amended: for every tagged value x, LNOT(LNOT(x)) is the boolean
\* ToBoolean(x), which is x again when x is a boolean.
C30_LNotTwiceIsToBoolean ==
  exec = "run" =>
    \A i \in 0..(NRegs - 1) :
      /\ LNotTwice(Reg(i)) = Bool(duk_js_toboolean(Reg(i)))
      /\ Reg(i).t = "boolean" => LNotTwice(Reg(i)) = Reg(i)

\* LNOT ran on a number and then on its own result: the second result is
\* the boolean true, not the number
C30_Witness ==
  /\ steps = 2
  /\ Reg(0) = Num(1)
  /\ Reg(1) = Bool(FALSE)
  /\ Reg(2) = Bool(TRUE)


\* ------------------------------------------------------------------- C31
\* C31: ENDTRY and ENDCATCH continue at pc_base + 1 of the top catcher.  With
\* the finally part enabled they store undefined in valstack[idx_base] and
\* the kind Normal in valstack[idx_base + 1], clear finally_enabled and keep
\* the catcher (an ENDFIN then finds the kind Normal); otherwise they remove
\* exactly that catcher.  A catcher ENDTRY keeps has catch_enabled cleared.
C31_NormalCompletion ==
  [][(OpEndTry \/ OpEndCatch) =>
       LET cat == Top(cur.catchstack)
       IN /\ exec' = "run" /\ heap' = heap
          /\ curAfter.callstack =
               [cur.callstack EXCEPT ![Len(cur.callstack)].pc = cat.pc_base + 1]
          /\ IF cat.finally_enabled
             THEN /\ curAfter.valstack =
                       [cur.valstack EXCEPT ![cat.idx_base + 1] = Undef,
                                            ![cat.idx_base + 2] = Num(LjTypeNum["NORMAL"])]
                  /\ curAfter.catchstack =
                       [cur.catchstack EXCEPT ![Len(cur.catchstack)].finally_enabled = FALSE,
                                              ![Len(cur.catchstack)].catch_enabled = FALSE]
             ELSE /\ curAfter.valstack = cur.valstack
                  /\ curAfter.catchstack = SubSeq(cur.catchstack, 1, TopCat)]_vars

\* a try part with catch and finally parts ended with ENDTRY: the catcher is
\* kept with both parts disabled and the kind Normal saved
C31_Witness ==
  /\ exec = "run"
  /\ steps = 2
  /\ Len(cur.catchstack) = 1
  /\ Top(cur.catchstack).type = "TCF"
  /\ ~Top(cur.catchstack).finally_enabled /\ ~Top(cur.catchstack).catch_enabled
  /\ SavedKind = Num(LjTypeNum["NORMAL"])
  /\ SavedLabel = Undef
  /\ Top(cur.callstack).pc = Top(cur.catchstack).pc_base + 1


\* ------------------------------------------------------ setjmp catchpoint
\* The catchpoint of duk_js_execute_bytecode() in two steps: the longjmp
\* lands at the executor's jmpbuf and the entry values are put back, then
\* the transfer handler runs and its result is dispatched.  heap.jmpbuf_ptr
\* names the active catchpoint: "executor" is the jmpbuf of this executor,
\* "caller" the one found at entry.

InitCatchpoint ==
  /\ \E e \in {EntryOuter, EntryNested} :
       /\ threads = [t \in Threads |-> IF t = 1 THEN e ELSE InactiveThread]
       /\ \E depth \in 0..1 :
            /\ entry = [thread |-> 1, callstack_top |-> Len(e.callstack),
                        call_recursion_depth |-> depth, jmpbuf_ptr |-> "caller"]
            /\ heap = [curr_thread |-> 1, lj |-> LjUnknown,
                       call_recursion_depth |-> depth, jmpbuf_ptr |-> "executor"]
  /\ exec = "run"
  /\ steps = 0

\* variant: the caller's catchpoint is not put back before the handler runs
Catchpoint_keep_jmpbuf ==
  /\ exec = "longjmp"
  /\ heap.jmpbuf_ptr = "executor"
  /\ heap' = [heap EXCEPT !.call_recursion_depth = entry.call_recursion_depth]
  /\ exec' = "handler"
  /\ UNCHANGED <<threads, entry, steps>>

\* the setjmp() return: call_recursion_depth and jmpbuf_ptr get their entry
\* values back
Catchpoint ==
  /\ exec = "longjmp"
  /\ heap.jmpbuf_ptr = "executor"
  /\ heap' = [heap EXCEPT !.call_recursion_depth = entry.call_recursion_depth,
                          !.jmpbuf_ptr = entry.jmpbuf_ptr]
  /\ exec' = "handler"
  /\ UNCHANGED <<threads, entry, steps>>

\* duk__handle_longjmp() and the dispatch on its result: RESTART goes through
\* reset_setjmp_catchpoint and restart_execution, RETHROW and FINISHED leave
\* the executor; "goto check_longjmp" stays in the handler; an error raised
\* by the handler itself goes to the catchpoint jmpbuf_ptr names
HandlerDispatch ==
  /\ exec = "handler"
  /\ \E r \in HandlerOutcomes(threads, heap, entry) :
        /\ threads' = IF r.exec = "run"
                      THEN [r.threads EXCEPT ![r.heap.curr_thread] = restart_execution(@, r.heap)]
                      ELSE r.threads
        /\ heap' = IF r.exec = "run" THEN [r.heap EXCEPT !.jmpbuf_ptr = "executor"] ELSE r.heap
        /\ exec' = CASE r.exec = "longjmp" -> "handler"
                      [] r.exec = "error" /\ r.heap.jmpbuf_ptr = "executor" -> "longjmp"
                      [] OTHER -> r.exec
  /\ UNCHANGED <<entry, steps>>

SpecCatchpoint ==
  InitCatchpoint /\ [][\/ OpLdConst
                       \/ OpReturn
                       \/ OpThrow
                       \/ OpTryCatch
                       \/ OpEndTry
                       \/ OpCall
                       \/ OpCallResume
                       \/ OpCallYield
                       \/ Catchpoint
                       \/ HandlerDispatch]_vars

\* C32: while the dispatch loop runs the active catchpoint is the
\* executor's own; while the transfer handler runs, and when an error of the
\* handler itself leaves the executor, it is the one found at entry, and the
\* handler is never entered again for such an error; when the executor is
\* left (finished, rethrown) the catchpoint and the call recursion depth
\* have their entry values.
C32_CatchpointDiscipline ==
  /\ [](exec = "run" => heap.jmpbuf_ptr = "executor")
  /\ [](exec = "handler" =>
          /\ heap.jmpbuf_ptr = entry.jmpbuf_ptr
          /\ heap.call_recursion_depth = entry.call_recursion_depth)
  /\ [](exec \in {"finished", "rethrown", "error"} =>
          /\ heap.jmpbuf_ptr = entry.jmpbuf_ptr
          /\ heap.call_recursion_depth = entry.call_recursion_depth)
  /\ [][exec = "handler" => exec' # "longjmp"]_vars

\* a resume() call inside a native call raised the depth, the handler
\* restarted the resumed thread, whose Return then finished the executor
\* of a caller with a depth of its own
C32_Witness ==
  /\ exec = "finished"
  /\ entry.call_recursion_depth = 1
  /\ heap.call_recursion_depth = 1
  /\ heap.jmpbuf_ptr = "caller"
  /\ \E t \in Threads : t # entry.thread /\ threads[t].state # "INACTIVE"


\* C33: at every instruction boundary exactly one thread is RUNNING, and it
\* is heap->curr_thread, the thread whose activation is executed.
RunningThreads == {t \in Threads : threads[t].state = "RUNNING"}

C33_SingleRunning ==
  exec = "run" => RunningThreads = {heap.curr_thread}

\* a resumed thread runs while its resumer waits, after a yield and a
\* second resume
C33_Witness ==
  /\ exec = "run"
  /\ heap.curr_thread # entry.thread
  /\ RunningThreads = {heap.curr_thread}
  /\ threads[entry.thread].state = "RESUMED"
  /\ \E t \in Threads : threads[t].state = "YIELDED"


\* C34: a thread has a resumer only while RUNNING or RESUMED (INACTIVE,
\* YIELDED and TERMINATED threads have none); every thread that is some
\* thread's resumer is RESUMED; the resumer links from the current thread
\* visit no thread twice and end at the executor's entry thread.
RECURSIVE ResumerChain(_, _)
ResumerChain(t, n) ==
  IF threads[t].resumer = 0 \/ n = 0 THEN <<t>>
  ELSE <<t>> \o ResumerChain(threads[t].resumer, n - 1)

CurrentChain == ResumerChain(heap.curr_thread, NThreads)

C34_ResumerChain ==
  exec = "run" =>
    /\ \A t \in Threads :
         /\ threads[t].resumer # 0 => threads[t].state \in {"RUNNING", "RESUMED"}
         /\ threads[t].state \in {"INACTIVE", "YIELDED", "TERMINATED"} => threads[t].resumer = 0
         /\ threads[t].resumer # 0 => threads[threads[t].resumer].state = "RESUMED"
    /\ \A i, j \in 1..Len(CurrentChain) : CurrentChain[i] = CurrentChain[j] => i = j
    /\ CurrentChain[Len(CurrentChain)] = entry.thread
    /\ threads[entry.thread].resumer = 0

\* a chain of three threads: the entry thread resumed a thread that resumed
\* the running one
C34_Witness ==
  /\ exec = "run"
  /\ Len(CurrentChain) = 3
  /\ CurrentChain[3] = entry.thread
  /\ threads[CurrentChain[2]].state = "RESUMED"


\* C35: every pass of the transfer handler ends with RESTART, FINISHED,
\* RETHROW or an internal error, or goes back to check_longjmp with a
\* smaller measure: a Resume or Yield with an error has become a Throw, or
\* an uncaught Throw has terminated one more thread and moved to its
\* resumer; so the handler is left after finitely many passes.
LiveThreads == {t \in Threads : threads[t].state # "TERMINATED"}

HandlerMeasure ==
  2 * Cardinality(LiveThreads) + (IF heap.lj.type = "THROW" THEN 0 ELSE 1)

C35_HandlerTerminates ==
  [][exec = "longjmp" =>
       \/ exec' \in {"run", "finished", "rethrown", "error"}
       \/ /\ exec' = "longjmp"
          /\ heap'.lj.type = "THROW"
          /\ HandlerMeasure' < HandlerMeasure
          /\ \/ heap.lj.type \in {"RESUME", "YIELD"} /\ heap.lj.iserror
             \/ /\ heap.lj.type = "THROW"
                /\ heap'.curr_thread = cur.resumer
                /\ threads'[heap.curr_thread].state = "TERMINATED"]_vars


\* -------------------------------------------------- try / catch / finally
\* Every try statement has both a catch and a finally part, so a TCF catcher
\* whose finally part is no longer enabled is one whose finally part runs.
SpecTryCatchFinally ==
  Init /\ [][\/ TryCatch(TRUE, TRUE)
             \/ OpLdConst
             \/ OpReturn
             \/ OpBreak
             \/ OpThrow
             \/ OpEndTry
             \/ OpEndCatch
             \/ OpEndFin
             \/ OpCall
             \/ HandleLongjmp]_vars

\* C36: a Throw raised while a finally part runs is never delivered to a
\* part of the same catcher: the catcher that takes a Throw still had its
\* finally part enabled.
C36_NoSelfCatch ==
  [][Handling({"THROW"}) /\ Restarted =>
       cur.catchstack[Len(curAfter.catchstack)].finally_enabled]_vars


\* the step starts the finally part of catcher k, from ENDCATCH or from a
\* transfer the handler lets the finally part intercept: the catcher stays,
\* as the top catcher, and its finally part is no longer enabled
FinallyEntered(k) ==
  /\ exec = "longjmp" \/ OpEndCatch
  /\ k + 1 \in DOMAIN threads[1].catchstack
  /\ threads[1].catchstack[k + 1].type = "TCF"
  /\ threads[1].catchstack[k + 1].finally_enabled
  /\ exec' = "run"
  /\ Len(threads'[1].catchstack) = k + 1
  /\ ~threads'[1].catchstack[k + 1].finally_enabled

\* C37: when a finally part starts, however the try or catch part was left,
\* the lexical environment of the activation is the one of the try statement:
\* the environment of the catch variable of that catcher, and those of the
\* catchers above it, are no longer active.
C37_FinallyScope ==
  [][\A k \in 0..(MaxCatchstack - 1) :
       FinallyEntered(k) =>
         LET th == threads[1]
             a == th.catchstack[k + 1].callstack_index
         IN /\ ~DUK_CAT_HAS_LEXENV_ACTIVE(threads'[1].catchstack[k + 1])
            /\ threads'[1].callstack[a + 1].lex_env =
                 OuterN(th.envs, th.callstack[a + 1].lex_env,
                        Cardinality(ActiveAbove(th, k - 1, a)))]_vars


\* C38: after every pass of the transfer handler that ends with RESTART,
\* every catcher of the thread that is current then is owned by an
\* activation still on its call stack.
C38_NoDanglingCatchers ==
  [][exec = "longjmp" /\ exec' = "run" =>
       LET th == threads'[heap'.curr_thread]
       IN \A k \in DOMAIN th.catchstack :
            th.catchstack[k].callstack_index < Len(th.callstack)]_vars

\* a Throw in a called function was caught by the catcher of the caller:
\* the activation of the called function is gone and the catcher left is
\* owned by the caller
C38_Witness ==
  /\ exec = "run"
  /\ heap.lj = LjUnknown
  /\ steps = 5
  /\ Len(cur.callstack) = 1
  /\ Top(cur.callstack).idx_retval # 0
  /\ Len(cur.catchstack) = 1
  /\ Top(cur.catchstack).callstack_index = 0
  /\ ~Top(cur.catchstack).catch_enabled
  /\ Top(cur.callstack).pc = Top(cur.catchstack).pc_base
  /\ SavedKind = Num(LjTypeNum["THROW"])


\* the catchers of the current thread that can take a Throw: catch or finally
\* enabled and, in the entry thread, not below the entry level
ThrowCatchers ==
  {k \in CatIdx :
     /\ Cat(k).catch_enabled \/ Cat(k).finally_enabled
     /\ heap.curr_thread = entry.thread => Cat(k).callstack_index >= entry.callstack_top - 1}

TopThrowCatcher == CHOOSE k \in ThrowCatchers : \A j \in ThrowCatchers : j <= k

\* C39: a Yield with iserror leaves the yielding thread YIELDED with its call
\* and catch stacks as they are and no resumer, makes the resumer RUNNING and
\* current without touching its stacks, and is handled next as a Throw of
\* value1 there; that Throw, pending in a thread that is inside its resume()
\* call, is taken by the topmost enabled catcher of that thread, the
\* resume() activation unwound.
C39_YieldWithError ==
  [][/\ (Handling({"YIELD"}) /\ heap.lj.iserror) =>
          LET t == heap.curr_thread
              r == cur.resumer
          IN /\ r # 0
             /\ threads' = [threads EXCEPT ![t] = [@ EXCEPT !.state = "YIELDED", !.resumer = 0],
                                           ![r] = [@ EXCEPT !.state = "RUNNING"]]
             /\ heap' = [heap EXCEPT !.curr_thread = r, !.lj.type = "THROW"]
             /\ exec' = "longjmp"
     /\ (Handling({"THROW"}) /\ cur.callstack # <<>> /\ Top(cur.callstack).func = "resume"
           /\ ThrowCatchers # {}) =>
          LET cat == Cat(TopThrowCatcher)
          IN /\ Restarted
             /\ Len(curAfter.catchstack) = TopThrowCatcher + 1
             /\ Len(curAfter.callstack) = cat.callstack_index + 1
             /\ Len(curAfter.callstack) < Len(cur.callstack)
             /\ curAfter.valstack[cat.idx_base + 1] = heap.lj.value1
             /\ Top(curAfter.callstack).pc = cat.pc_base + (IF cat.catch_enabled THEN 0 ELSE 1)]_vars

\* a resumed thread yielded an error from inside a try block of its own: it
\* is YIELDED inside its yield() call, catcher in place, and the catcher of
\* the entry thread, set before its resume() call, has caught the error
C39_Witness ==
  /\ exec = "run"
  /\ steps = 4
  /\ heap.curr_thread = entry.thread
  /\ Len(cur.catchstack) = 1
  /\ ~Top(cur.catchstack).catch_enabled
  /\ Top(cur.callstack).pc = Top(cur.catchstack).pc_base
  /\ SavedKind = Num(LjTypeNum["THROW"])
  /\ cur.valstack[Top(cur.catchstack).idx_base + 1] = Str(1)
  /\ \E t \in Threads :
       /\ threads[t].state = "YIELDED"
       /\ threads[t].resumer = 0
       /\ Top(threads[t].callstack).func = "yield"
       /\ Len(threads[t].catchstack) = 1
       /\ Top(threads[t].catchstack).catch_enabled

=============================================================================
